---- MODULE Spec2Model ----
(***************************************************************************)
(* A model of the lume/kiwi Cassowary solver (src/src/solver.ts).          *)
(*                                                                         *)
(* Numbers are exact rationals [n, d] (d > 0, lowest terms).  The inputs   *)
(* drawn below are small dyadic rationals, on which the IEEE doubles of    *)
(* the program compute exactly, so the exact arithmetic is the program's.  *)
(* Ordered maps (IndexedMap) are sequences of <<key, value>> pairs with    *)
(* the swap-with-last erase of the source, so iteration order is the       *)
(* program's iteration order.  A value that a method computes once and     *)
(* reads several times is handed to a helper operator as a parameter.      *)
(***************************************************************************)
EXTENDS Integers, Sequences, FiniteSets, TLC

(***************************************************************************)
(* Numbers                                                                 *)
(***************************************************************************)
Abs(i) == IF i < 0 THEN -i ELSE i

RECURSIVE GCD(_, _)
GCD(a, b) == IF b = 0 THEN a ELSE GCD(b, a % b)

Reduce(n, d, g) == [n |-> n \div g, d |-> d \div g]
Norm(n, d) == Reduce(n, d, GCD(Abs(n), d))

R(i) == [n |-> i, d |-> 1]
Q(n, d) == Norm(n, d)
Zero == [n |-> 0, d |-> 1]
One == [n |-> 1, d |-> 1]

RNeg(a) == [n |-> -a.n, d |-> a.d]
RAdd(a, b) == Norm(a.n * b.d + b.n * a.d, a.d * b.d)
RSub(a, b) == Norm(a.n * b.d - b.n * a.d, a.d * b.d)
RMulReduced(a, b, g1, g2) ==
    [n |-> (a.n \div g1) * (b.n \div g2), d |-> (a.d \div g2) * (b.d \div g1)]
RMul(a, b) ==
    IF a.n = 0 \/ b.n = 0 THEN Zero
    ELSE RMulReduced(a, b, GCD(Abs(a.n), b.d), GCD(Abs(b.n), a.d))
RInv(a) == IF a.n > 0 THEN [n |-> a.d, d |-> a.n] ELSE [n |-> -a.d, d |-> -a.n]
RDiv(a, b) == RMul(a, RInv(b))
RLt(a, b) == a.n * b.d < b.n * a.d
RLe(a, b) == a.n * b.d <= b.n * a.d
RAbs(a) == [n |-> Abs(a.n), d |-> a.d]

\* 1 / eps of nearZero: eps = 1.0e-8
EpsInv == 100000000

\* nearZero(value): |value| < eps, i.e. |n| * EpsInv < d
nearZero(value) == value.n = 0 \/ Abs(value.n) <= (value.d - 1) \div EpsInv

(***************************************************************************)
(* Strength                                                                *)
(***************************************************************************)
IMax(a, b) == IF a < b THEN b ELSE a
IMin(a, b) == IF a < b THEN a ELSE b

StrengthCreate(a, b, c, w) ==
    IMax(0, IMin(1000, a * w)) * 1000000
    + IMax(0, IMin(1000, b * w)) * 1000
    + IMax(0, IMin(1000, c * w))

required == StrengthCreate(1000, 1000, 1000, 1)
strong == StrengthCreate(1, 0, 0, 1)
medium == StrengthCreate(0, 1, 0, 1)
weak == StrengthCreate(0, 0, 1, 1)

StrengthClip(value) == IMax(0, IMin(required, value))

(***************************************************************************)
(* IndexedMap: a sequence of <<key, value>> pairs, keys compared by id     *)
(***************************************************************************)
MapContains(m, key) == \E i \in 1..Len(m) : m[i][1].id = key.id

\* the position of the key (index[key.id()]); 0 when absent
MapIndex(m, key) ==
    IF MapContains(m, key) THEN CHOOSE i \in 1..Len(m) : m[i][1].id = key.id ELSE 0

\* the value stored under a key that is present
MapValue(m, key) == m[CHOOSE i \in 1..Len(m) : m[i][1].id = key.id][2]

MapInsert(m, key, value) ==
    IF MapContains(m, key) THEN [m EXCEPT ![MapIndex(m, key)] = <<key, value>>]
    ELSE Append(m, <<key, value>>)

\* erase at position i of n: the last pair takes the place of the erased one
EraseAt(m, i, n) ==
    IF i = 0 THEN m
    ELSE IF i = n THEN SubSeq(m, 1, n - 1)
    ELSE [j \in 1..(n - 1) |-> IF j = i THEN m[n] ELSE m[j]]

MapErase(m, key) == EraseAt(m, MapIndex(m, key), Len(m))

MapKeys(m) == [i \in 1..Len(m) |-> m[i][1]]

\* setDefault(key, factory): the pair is appended only when the key is absent
MapSetDefault(m, key, value) ==
    IF MapContains(m, key) THEN m ELSE Append(m, <<key, value>>)

(***************************************************************************)
(* Symbol                                                                  *)
(***************************************************************************)
Symbol(type, id) == [type |-> type, id |-> id]
INVALID_SYMBOL == [type |-> "Invalid", id |-> -1]

\* the key at position i of a map, the invalid symbol for position 0
KeyAt(m, i) == IF i = 0 THEN INVALID_SYMBOL ELSE m[i][1]

(***************************************************************************)
(* Row                                                                     *)
(***************************************************************************)
Row(constant) == [constant |-> constant, cells |-> <<>>]

isConstant(row) == Len(row.cells) = 0

allDummies(row) == \A i \in 1..Len(row.cells) : row.cells[i][1].type = "Dummy"

add(row, value) == [row EXCEPT !.constant = RAdd(@, value)]

coefficientFor(row, symbol) ==
    IF MapContains(row.cells, symbol) THEN MapValue(row.cells, symbol) ELSE Zero

\* the cell of symbol after its coefficient became sum: erased when near zero
putCell(row, symbol, sum) ==
    [row EXCEPT !.cells = IF nearZero(sum) THEN MapErase(@, symbol) ELSE MapInsert(@, symbol, sum)]

insertSymbol(row, symbol, coefficient) ==
    putCell(row, symbol, RAdd(coefficientFor(row, symbol), coefficient))

RECURSIVE insertCells(_, _, _, _)
insertCells(row, cells, i, coefficient) ==
    IF i > Len(cells) THEN row
    ELSE insertCells(insertSymbol(row, cells[i][1], RMul(cells[i][2], coefficient)),
                     cells, i + 1, coefficient)

insertRow(row, other, coefficient) ==
    insertCells(add(row, RMul(other.constant, coefficient)), other.cells, 1, coefficient)

removeSymbol(row, symbol) == [row EXCEPT !.cells = MapErase(@, symbol)]

\* the constant and every cell multiplied by coeff
scaleRow(row, coeff) ==
    [constant |-> RMul(row.constant, coeff),
     cells |-> [i \in 1..Len(row.cells) |-> <<row.cells[i][1], RMul(row.cells[i][2], coeff)>>]]

reverseSign(row) ==
    [constant |-> RNeg(row.constant),
     cells |-> [i \in 1..Len(row.cells) |-> <<row.cells[i][1], RNeg(row.cells[i][2])>>]]

\* The symbol must exist in the row.
solveFor(row, symbol) ==
    scaleRow(removeSymbol(row, symbol), RNeg(RInv(coefficientFor(row, symbol))))

solveForEx(row, lhs, rhs) == solveFor(insertSymbol(row, lhs, [n |-> -1, d |-> 1]), rhs)

substitute(row, symbol, other) ==
    IF MapContains(row.cells, symbol)
    THEN insertRow(removeSymbol(row, symbol), other, MapValue(row.cells, symbol))
    ELSE row

(***************************************************************************)
(* Solver: private methods.  S is the record of the solver's fields        *)
(* (cnMap, rowMap, varMap, editMap, infeasibleRows, objective, artificial, *)
(* idTick, maxIterations); artificial is <<>> for null, else <<row>>.      *)
(* Methods that can throw return the fields as they are at the throw in s  *)
(* and the error message in err ("ok" when they return).                   *)
(***************************************************************************)
Ok(S) == [s |-> S, err |-> "ok"]
Throw(S, message) == [s |-> S, err |-> message]

FirstIndex(seq, P(_)) ==
    IF \E i \in 1..Len(seq) : P(seq[i])
    THEN CHOOSE i \in 1..Len(seq) : P(seq[i]) /\ \A j \in 1..(i - 1) : ~P(seq[j])
    ELSE 0

\* the first index whose ratio is the least among the candidate indices (r < ratio keeps the first)
FirstMin(cand, ratio(_)) ==
    IF cand = {} THEN 0
    ELSE CHOOSE i \in cand : \A j \in cand : RLt(ratio(i), ratio(j)) \/ (ratio(i) = ratio(j) /\ i <= j)

LastIndex(cand) == IF cand = {} THEN 0 ELSE CHOOSE i \in cand : \A j \in cand : j <= i

makeSymbol(S, type) == [type |-> type, id |-> S.idTick]

getVarSymbol(S, variable) ==
    IF MapContains(S.varMap, variable)
    THEN [s |-> S, symbol |-> MapValue(S.varMap, variable)]
    ELSE [s |-> [S EXCEPT !.varMap = Append(@, <<variable, makeSymbol(S, "External")>>),
                          !.idTick = @ + 1],
          symbol |-> makeSymbol(S, "External")]

\* one term of the expression enters the row: the basic row of its symbol, or the symbol itself
insertTerm(S, row, symbol, coefficient) ==
    IF MapContains(S.rowMap, symbol) THEN insertRow(row, MapValue(S.rowMap, symbol), coefficient)
    ELSE insertSymbol(row, symbol, coefficient)

RECURSIVE createRowTerms(_, _, _, _)
createRowTermAt(g, row, terms, i) ==
    createRowTerms(g.s, insertTerm(g.s, row, g.symbol, terms[i][2]), terms, i + 1)

createRowTerms(S, row, terms, i) ==
    IF i > Len(terms) THEN [s |-> S, row |-> row]
    ELSE IF nearZero(terms[i][2]) THEN createRowTerms(S, row, terms, i + 1)
    ELSE createRowTermAt(getVarSymbol(S, terms[i][1]), row, terms, i)

\* Ensure the row has a positive constant.
normalizeRow(row) == IF RLt(row.constant, Zero) THEN reverseSign(row) ELSE row

Created(S, row, marker, other) ==
    [s |-> S, row |-> normalizeRow(row), tag |-> [marker |-> marker, other |-> other]]

\* penalize that gives every error variable the same weight
penalizeUnweighted(objective, error, strength) == insertSymbol(objective, error, One)

\* objective.insertSymbol(error, strength)
penalize(objective, error, strength) == insertSymbol(objective, error, R(strength))

\* the slack, error and dummy variables of _createRow; id is the next symbol id
createRowSymbols(S, row, op, strength, id, coeff) ==
    IF op \in {"Le", "Ge"}
    THEN IF strength < required
         THEN Created([S EXCEPT !.idTick = id + 2,
                                !.objective = penalize(@, Symbol("Error", id + 1), strength)],
                      insertSymbol(insertSymbol(row, Symbol("Slack", id), coeff),
                                   Symbol("Error", id + 1), RNeg(coeff)),
                      Symbol("Slack", id), Symbol("Error", id + 1))
         ELSE Created([S EXCEPT !.idTick = id + 1],
                      insertSymbol(row, Symbol("Slack", id), coeff),
                      Symbol("Slack", id), INVALID_SYMBOL)
    ELSE IF strength < required
         THEN Created([S EXCEPT !.idTick = id + 2,
                                !.objective = penalize(penalize(@, Symbol("Error", id), strength),
                                                       Symbol("Error", id + 1), strength)],
                      insertSymbol(insertSymbol(row, Symbol("Error", id), R(-1)),
                                   Symbol("Error", id + 1), One),
                      Symbol("Error", id), Symbol("Error", id + 1))
         ELSE Created([S EXCEPT !.idTick = id + 1],
                      insertSymbol(row, Symbol("Dummy", id), One),
                      Symbol("Dummy", id), INVALID_SYMBOL)

\* createRowFrom with the sign of the slack variable taken the wrong way round
createRowFromSwapped(t, constraint) ==
    createRowSymbols(t.s, t.row, constraint.op, constraint.strength, t.s.idTick,
                     IF constraint.op = "Le" THEN R(-1) ELSE One)

createRowFrom(t, constraint) ==
    createRowSymbols(t.s, t.row, constraint.op, constraint.strength, t.s.idTick,
                     IF constraint.op = "Le" THEN One ELSE R(-1))

createRow(S, constraint) ==
    createRowFrom(createRowTerms(S, Row(constraint.expression.constant),
                                 constraint.expression.terms, 1),
                  constraint)

\* chooseSubject that looks among the External symbols of the row only
chooseSubjectExternal(row, tag) ==
    IF \E i \in 1..Len(row.cells) : row.cells[i][1].type = "External"
    THEN KeyAt(row.cells, FirstIndex(row.cells, LAMBDA pair : pair[1].type = "External"))
    ELSE INVALID_SYMBOL

chooseSubject(row, tag) ==
    IF \E i \in 1..Len(row.cells) : row.cells[i][1].type = "External"
    THEN KeyAt(row.cells, FirstIndex(row.cells, LAMBDA pair : pair[1].type = "External"))
    ELSE IF tag.marker.type \in {"Slack", "Error"} /\ RLt(coefficientFor(row, tag.marker), Zero)
    THEN tag.marker
    ELSE IF tag.other.type \in {"Slack", "Error"} /\ RLt(coefficientFor(row, tag.other), Zero)
    THEN tag.other
    ELSE INVALID_SYMBOL

\* the pushes of _substitute: every non-External row left with a negative constant
pushInfeasible(S) ==
    [S EXCEPT !.infeasibleRows =
        @ \o MapKeys(SelectSeq(S.rowMap,
                               LAMBDA pair : RLt(pair[2].constant, Zero) /\ pair[1].type # "External"))]

\* Solver._substitute
substituteTableau(S, symbol, row) ==
    pushInfeasible([S EXCEPT
        !.rowMap = [i \in 1..Len(@) |-> <<@[i][1], substitute(@[i][2], symbol, row)>>],
        !.objective = substitute(@, symbol, row),
        !.artificial = [i \in 1..Len(@) |-> substitute(@[i], symbol, row)]])

\* getEnteringSymbol that never finds a symbol
getEnteringSymbolNone(objective) == INVALID_SYMBOL

getEnteringSymbol(objective) ==
    KeyAt(objective.cells,
          FirstIndex(objective.cells, LAMBDA pair : RLt(pair[2], Zero) /\ pair[1].type # "Dummy"))

\* getLeavingSymbol that also takes the rows of External symbols
getLeavingSymbolAny(S, entering) ==
    KeyAt(S.rowMap,
          FirstMin({i \in 1..Len(S.rowMap) :
                        RLt(coefficientFor(S.rowMap[i][2], entering), Zero)},
                   LAMBDA i : RDiv(RNeg(S.rowMap[i][2].constant),
                                   coefficientFor(S.rowMap[i][2], entering))))

getLeavingSymbol(S, entering) ==
    KeyAt(S.rowMap,
          FirstMin({i \in 1..Len(S.rowMap) :
                        /\ S.rowMap[i][1].type # "External"
                        /\ RLt(coefficientFor(S.rowMap[i][2], entering), Zero)},
                   LAMBDA i : RDiv(RNeg(S.rowMap[i][2].constant),
                                   coefficientFor(S.rowMap[i][2], entering))))

getDualEnteringSymbol(S, row) ==
    KeyAt(row.cells,
          FirstMin({i \in 1..Len(row.cells) :
                        RLt(Zero, row.cells[i][2]) /\ row.cells[i][1].type # "Dummy"},
                   LAMBDA i : RDiv(coefficientFor(S.objective, row.cells[i][1]), row.cells[i][2])))

\* markerLeaving that returns third, the External row, before first and second
markerLeavingThird(rows, first, second, third) ==
    IF third # 0 THEN rows[third][1]
    ELSE IF first # 0 THEN rows[first][1]
    ELSE IF second # 0 THEN rows[second][1]
    ELSE INVALID_SYMBOL

\* first, second and third of _getMarkerLeavingSymbol, as positions in rows
markerLeaving(rows, first, second, third) ==
    IF first # 0 THEN rows[first][1]
    ELSE IF second # 0 THEN rows[second][1]
    ELSE IF third # 0 THEN rows[third][1]
    ELSE INVALID_SYMBOL

getMarkerLeavingSymbol(S, marker) ==
    markerLeaving(S.rowMap,
        FirstMin({i \in 1..Len(S.rowMap) :
                      /\ S.rowMap[i][1].type # "External"
                      /\ RLt(coefficientFor(S.rowMap[i][2], marker), Zero)},
                 LAMBDA i : RDiv(RNeg(S.rowMap[i][2].constant), coefficientFor(S.rowMap[i][2], marker))),
        FirstMin({i \in 1..Len(S.rowMap) :
                      /\ S.rowMap[i][1].type # "External"
                      /\ RLt(Zero, coefficientFor(S.rowMap[i][2], marker))},
                 LAMBDA i : RDiv(S.rowMap[i][2].constant, coefficientFor(S.rowMap[i][2], marker))),
        LastIndex({i \in 1..Len(S.rowMap) :
                      /\ S.rowMap[i][1].type = "External"
                      /\ coefficientFor(S.rowMap[i][2], marker) # Zero}))

anyPivotableSymbol(row) ==
    KeyAt(row.cells, FirstIndex(row.cells, LAMBDA pair : pair[1].type \in {"Slack", "Error"}))

\* enterBasis that leaves symbol in the rows it is a cell of
enterBasisOnly(S, symbol, row) == [S EXCEPT !.rowMap = MapInsert(@, symbol, row)]

\* row, solved for symbol, replaces symbol in the tableau and becomes its basic row
enterBasis(S, symbol, row) ==
    [substituteTableau(S, symbol, row) EXCEPT !.rowMap = MapInsert(@, symbol, row)]

\* a pivot as the history keeps it: where it was made, what left and what entered the basis
Pivot(in, leaving, entering) == [in |-> in, leaving |-> leaving, entering |-> entering]

\* the pivot of _optimize and _dualOptimize: erase leaving, solveForEx, _substitute, insert
pivot(S, leaving, entering) ==
    enterBasis([S EXCEPT !.rowMap = MapErase(@, leaving),
                         !.pivots = Append(@, Pivot("simplex", leaving, entering))], entering,
               solveForEx(MapValue(S.rowMap, leaving), leaving, entering))

\* _optimize(objective): which is "objective" for this._objective, "artificial" for this._artificial
RECURSIVE optimize(_, _, _)
optimizeLeaving(S, which, iterations, entering, leaving) ==
    IF leaving.type = "Invalid" THEN Throw(S, "the objective is unbounded")
    ELSE optimize(pivot(S, leaving, entering), which, iterations + 1)

optimizeEntering(S, which, iterations, entering) ==
    IF entering.type = "Invalid" THEN Ok(S)
    ELSE optimizeLeaving(S, which, iterations, entering, getLeavingSymbol(S, entering))

\* optimize that returns at once
optimizeSkipped(S, which, iterations) == Ok(S)

optimize(S, which, iterations) ==
    IF ~(iterations < S.maxIterations) THEN Throw(S, "solver iterations exceeded")
    ELSE optimizeEntering(S, which, iterations,
                          getEnteringSymbol(IF which = "artificial" THEN S.artificial[1]
                                            ELSE S.objective))

RECURSIVE dualOptimize(_)
dualPivot(S, leaving, entering) ==
    IF entering.type = "Invalid" THEN Throw(S, "dual optimize failed")
    ELSE dualOptimize(pivot(S, leaving, entering))

\* one turn of the loop of _dualOptimize, leaving popped off infeasibleRows
dualStep(S, leaving) ==
    IF MapContains(S.rowMap, leaving) /\ RLt(MapValue(S.rowMap, leaving).constant, Zero)
    THEN dualPivot(S, leaving, getDualEnteringSymbol(S, MapValue(S.rowMap, leaving)))
    ELSE dualOptimize(S)

dualOptimize(S) ==
    IF Len(S.infeasibleRows) = 0 THEN Ok(S)
    ELSE dualStep([S EXCEPT !.infeasibleRows = SubSeq(@, 1, Len(@) - 1)],
                  S.infeasibleRows[Len(S.infeasibleRows)])

removeMarkerEffects(S, marker, strength) ==
    [S EXCEPT !.objective = IF MapContains(S.rowMap, marker)
                            THEN insertRow(@, MapValue(S.rowMap, marker), R(-strength))
                            ELSE insertSymbol(@, marker, R(-strength))]

removeOtherEffects(S, cn, tag) ==
    IF tag.other.type = "Error" THEN removeMarkerEffects(S, tag.other, cn.strength) ELSE S

removeConstraintEffects(S, cn, tag) ==
    removeOtherEffects(IF tag.marker.type = "Error"
                       THEN removeMarkerEffects(S, tag.marker, cn.strength) ELSE S,
                       cn, tag)

\* the tail of _addWithArtificialVariable: remove the artificial variable from the tableau
removeArtificial(S, art) ==
    [S EXCEPT !.rowMap = [i \in 1..Len(@) |-> <<@[i][1], removeSymbol(@[i][2], art)>>],
              !.objective = removeSymbol(@, art)]

Outcome(S, success) == [s |-> S, err |-> "ok", success |-> success]

\* retireBasic that returns with the row of the artificial variable erased and no pivot
retireBasicErased(S, art, basicRow, entering, success) == Outcome(S, success)

\* the artificial variable is basic: S has its row erased, basicRow is that row
retireBasic(S, art, basicRow, entering, success) ==
    IF isConstant(basicRow) THEN Outcome(S, success)
    ELSE IF entering.type = "Invalid" THEN Outcome(S, FALSE)
    ELSE Outcome(removeArtificial(enterBasis([S EXCEPT !.pivots =
                                                  Append(@, Pivot("artificial", art, entering))],
                                             entering, solveForEx(basicRow, art, entering)), art),
                 success)

\* after the artificial objective was optimized: S has _artificial reset to null
retireArtificial(S, art, success) ==
    IF MapContains(S.rowMap, art)
    THEN retireBasic([S EXCEPT !.rowMap = MapErase(@, art)], art, MapValue(S.rowMap, art),
                     anyPivotableSymbol(MapValue(S.rowMap, art)), success)
    ELSE Outcome(removeArtificial(S, art), success)

artificialOptimized(o, art) ==
    IF o.err # "ok" THEN [s |-> o.s, err |-> o.err, success |-> FALSE]
    ELSE retireArtificial([o.s EXCEPT !.artificial = <<>>], art,
                          nearZero(o.s.artificial[1].constant))

addWithArtificialVariable(S, row) ==
    artificialOptimized(optimize([S EXCEPT !.idTick = @ + 1,
                                           !.rowMap = MapInsert(@, makeSymbol(S, "Slack"), row),
                                           !.artificial = <<row>>],
                                 "artificial", 0),
                        makeSymbol(S, "Slack"))

(***************************************************************************)
(* Variable, Expression, Constraint                                        *)
(***************************************************************************)
Variable(id) == [id |-> id]

\* new Expression(variable)
ExpressionOfVariable(variable) == [terms |-> <<<<variable, One>>>>, constant |-> Zero]

\* new Constraint(expression, operator, undefined, strength), given the id it draws from CnId
Constraint(id, expression, operator, strength) ==
    [id |-> id, expression |-> expression, op |-> operator, strength |-> StrengthClip(strength)]

\* expression.minus(value) for a number: new Expression(this, -value)
minus(expression, value) == [expression EXCEPT !.constant = RAdd(@, RNeg(value))]

\* new Constraint(expression, operator, rhs, strength) with a number for rhs
ConstraintRhs(id, expression, operator, rhs, strength) ==
    [id |-> id, expression |-> minus(expression, rhs), op |-> operator,
     strength |-> StrengthClip(strength)]

(***************************************************************************)
(* Solver: public methods                                                  *)
(***************************************************************************)
\* the end of addConstraint: record the tag, optimize the objective
addConstraintRecord(S, constraint, tag) ==
    optimize([S EXCEPT !.cnMap = MapInsert(@, constraint, tag)], "objective", 0)

addConstraintArtificial(a, constraint, tag) ==
    IF a.err # "ok" THEN Throw(a.s, a.err)
    ELSE IF ~a.success THEN Throw(a.s, "unsatisfiable constraint")
    ELSE addConstraintRecord(a.s, constraint, tag)

addConstraintSubject(S, constraint, row, tag, subject) ==
    IF subject.type = "Invalid" /\ allDummies(row) /\ ~nearZero(row.constant)
    THEN Throw(S, "unsatisfiable constraint")
    ELSE IF subject.type = "Invalid" /\ allDummies(row)
    THEN addConstraintRecord(enterBasis(S, tag.marker, solveFor(row, tag.marker)), constraint, tag)
    ELSE IF subject.type = "Invalid"
    THEN addConstraintArtificial(addWithArtificialVariable(S, row), constraint, tag)
    ELSE addConstraintRecord(enterBasis(S, subject, solveFor(row, subject)), constraint, tag)

addConstraintRow(data, constraint) ==
    addConstraintSubject(data.s, constraint, data.row, data.tag, chooseSubject(data.row, data.tag))

\* addConstraint that does not look the constraint up first
addConstraintAgain(S, constraint) == addConstraintRow(createRow(S, constraint), constraint)

addConstraint(S, constraint) ==
    IF MapContains(S.cnMap, constraint) THEN Throw(S, "duplicate constraint")
    ELSE addConstraintRow(createRow(S, constraint), constraint)

\* the marker is not basic: pivot it into the basis, then drop the row
removeConstraintLeaving(S, marker, leaving) ==
    IF leaving.type = "Invalid" THEN Throw(S, "failed to find leaving row")
    ELSE optimize(substituteTableau([S EXCEPT !.rowMap = MapErase(@, leaving),
                                              !.pivots = Append(@, Pivot("marker", leaving, marker))],
                                    marker,
                                    solveForEx(MapValue(S.rowMap, leaving), leaving, marker)),
                  "objective", 0)

\* removeConstraintMarker that leaves the rows of the tableau as they are
removeConstraintMarkerKept(S, marker) == Ok(S)

removeConstraintMarker(S, marker) ==
    IF MapContains(S.rowMap, marker)
    THEN optimize([S EXCEPT !.rowMap = MapErase(@, marker)], "objective", 0)
    ELSE removeConstraintLeaving(S, marker, getMarkerLeavingSymbol(S, marker))

\* removeConstraint that returns when the constraint is not in the solver
removeConstraintQuiet(S, constraint) ==
    IF ~MapContains(S.cnMap, constraint) THEN Ok(S)
    ELSE removeConstraintMarker(
             removeConstraintEffects([S EXCEPT !.cnMap = MapErase(@, constraint)], constraint,
                                     MapValue(S.cnMap, constraint)),
             MapValue(S.cnMap, constraint).marker)

removeConstraint(S, constraint) ==
    IF ~MapContains(S.cnMap, constraint) THEN Throw(S, "unknown constraint")
    ELSE removeConstraintMarker(
             removeConstraintEffects([S EXCEPT !.cnMap = MapErase(@, constraint)], constraint,
                                     MapValue(S.cnMap, constraint)),
             MapValue(S.cnMap, constraint).marker)

hasConstraint(S, constraint) == MapContains(S.cnMap, constraint)

getConstraints(S) == MapKeys(S.cnMap)

\* the end of addEditVariable, r the outcome of addConstraint(cn)
addEditVariableInfo(r, variable, cn) ==
    IF r.err # "ok" THEN [s |-> r.s, err |-> r.err, made |-> TRUE]
    ELSE [s |-> [r.s EXCEPT !.editMap =
                    MapInsert(@, variable, [tag |-> MapValue(r.s.cnMap, cn), constraint |-> cn,
                                            constant |-> Zero])],
          err |-> "ok", made |-> TRUE]

addEditVariableConstraint(S, variable, cn) ==
    addEditVariableInfo(addConstraint(S, cn), variable, cn)

\* addEditVariable that accepts any strength
addEditVariableAnyStrength(S, variable, strength, cnId) ==
    IF MapContains(S.editMap, variable)
    THEN [s |-> S, err |-> "duplicate edit variable", made |-> FALSE]
    ELSE addEditVariableConstraint(S, variable,
             Constraint(cnId, ExpressionOfVariable(variable), "Eq", StrengthClip(strength)))

\* made tells whether the Constraint was constructed (CnId advanced)
addEditVariable(S, variable, strength, cnId) ==
    IF MapContains(S.editMap, variable)
    THEN [s |-> S, err |-> "duplicate edit variable", made |-> FALSE]
    ELSE IF StrengthClip(strength) = required
    THEN [s |-> S, err |-> "bad required strength", made |-> FALSE]
    ELSE addEditVariableConstraint(S, variable,
             Constraint(cnId, ExpressionOfVariable(variable), "Eq", StrengthClip(strength)))

removeEditVariable(S, variable) ==
    IF ~MapContains(S.editMap, variable) THEN Throw(S, "unknown edit variable")
    ELSE removeConstraint([S EXCEPT !.editMap = MapErase(@, variable)],
                          MapValue(S.editMap, variable).constraint)

hasEditVariable(S, variable) == MapContains(S.editMap, variable)

\* suggestBasic that never records the row as infeasible
suggestBasicUnchecked(S, symbol, row) == [S EXCEPT !.rowMap = MapInsert(@, symbol, row)]

\* row.add(value) < 0.0 on the basic row of symbol: push symbol when the new constant is negative
suggestBasic(S, symbol, row) ==
    [S EXCEPT !.rowMap = MapInsert(@, symbol, row),
              !.infeasibleRows = IF RLt(row.constant, Zero) THEN Append(@, symbol) ELSE @]

\* the last branch of suggestValue: update each row where the error variables exist
suggestPush(S, marker) ==
    [S.s EXCEPT !.infeasibleRows =
        @ \o MapKeys(SelectSeq(S.s.rowMap,
                               LAMBDA pair : /\ coefficientFor(MapValue(S.before, pair[1]), marker) # Zero
                                             /\ RLt(pair[2].constant, Zero)
                                             /\ pair[1].type # "External"))]

\* suggestRows that adds delta to every row, whatever the coefficient of the marker in it
suggestRowsWhole(S, marker, delta) ==
    suggestPush([before |-> S.rowMap,
                 s |-> [S EXCEPT !.rowMap = [i \in 1..Len(@) |-> <<@[i][1], add(@[i][2], delta)>>]]],
                marker)

suggestRows(S, marker, delta) ==
    suggestPush([before |-> S.rowMap,
                 s |-> [S EXCEPT !.rowMap =
                          [i \in 1..Len(@) |->
                              <<@[i][1], add(@[i][2], RMul(delta, coefficientFor(@[i][2], marker)))>>]]],
                marker)

suggestDelta(S, info, delta) ==
    IF MapContains(S.rowMap, info.tag.marker)
    THEN dualOptimize(suggestBasic(S, info.tag.marker,
                                   add(MapValue(S.rowMap, info.tag.marker), RNeg(delta))))
    ELSE IF MapContains(S.rowMap, info.tag.other)
    THEN dualOptimize(suggestBasic(S, info.tag.other,
                                   add(MapValue(S.rowMap, info.tag.other), delta)))
    ELSE dualOptimize(suggestRows(S, info.tag.marker, delta))

\* suggestValue that takes the value for the delta
suggestValueAbsolute(S, variable, value) ==
    IF ~MapContains(S.editMap, variable) THEN Throw(S, "unknown edit variable")
    ELSE suggestDelta([S EXCEPT !.editMap = MapInsert(@, variable,
                                    [MapValue(S.editMap, variable) EXCEPT !.constant = value])],
                      MapValue(S.editMap, variable), value)

suggestValue(S, variable, value) ==
    IF ~MapContains(S.editMap, variable) THEN Throw(S, "unknown edit variable")
    ELSE suggestDelta([S EXCEPT !.editMap = MapInsert(@, variable,
                                    [MapValue(S.editMap, variable) EXCEPT !.constant = value])],
                      MapValue(S.editMap, variable),
                      RSub(value, MapValue(S.editMap, variable).constant))

\* updatedValue that gives 0 to a variable the solver has no symbol for
updatedValueOfAny(S, v, before) ==
    IF MapContains(S.varMap, v) /\ MapContains(S.rowMap, MapValue(S.varMap, v))
    THEN MapValue(S.rowMap, MapValue(S.varMap, v)).constant
    ELSE Zero

\* the value v has after updateVariables, given its value before
updatedValue(S, v, before) ==
    IF ~MapContains(S.varMap, v) THEN before
    ELSE IF MapContains(S.rowMap, MapValue(S.varMap, v))
    THEN MapValue(S.rowMap, MapValue(S.varMap, v)).constant
    ELSE Zero

updateVariables(S, values) == [v \in DOMAIN values |-> updatedValue(S, v, values[v])]

(***************************************************************************)
(* The program's state: the fields of one Solver, the value of every       *)
(* Variable and the Constraint id counter.  History: the number of public  *)
(* calls made so far, the last call with its outcome, and a trail: the     *)
(* call before the last one, the variables' values before the last call,   *)
(* and what updateVariables would have reported before the last call       *)
(* (report1) and before the one before it (report2), and what             *)
(* getConstraints and hasEditVariable answered before the last call;       *)
(* suggested: for every variable the value last suggested for it with      *)
(* success (0 once it is made an edit variable).  The                      *)
(* client: how many calls it makes at most, whether it stops calling the   *)
(* solver at the first call that throws, and whether the trail is kept.    *)
(* pivots: the pivots the last call made, in order.                        *)
(***************************************************************************)
VARIABLES cnMap, rowMap, varMap, editMap, infeasibleRows, objective, artificial,
          idTick, maxIterations, value, CnId, calls, lastCall, trail, suggested, client,
          pivots

solverVars == <<cnMap, rowMap, varMap, editMap, infeasibleRows, objective, artificial,
                idTick, maxIterations>>
vars == <<cnMap, rowMap, varMap, editMap, infeasibleRows, objective, artificial,
          idTick, maxIterations, value, CnId, calls, lastCall, trail, suggested, client,
          pivots>>

Self ==
    [cnMap |-> cnMap, rowMap |-> rowMap, varMap |-> varMap, editMap |-> editMap,
     infeasibleRows |-> infeasibleRows, objective |-> objective, artificial |-> artificial,
     idTick |-> idTick, maxIterations |-> maxIterations, pivots |-> <<>>]

Becomes(S) ==
    /\ cnMap' = S.cnMap
    /\ rowMap' = S.rowMap
    /\ varMap' = S.varMap
    /\ editMap' = S.editMap
    /\ infeasibleRows' = S.infeasibleRows
    /\ objective' = S.objective
    /\ artificial' = S.artificial
    /\ idTick' = S.idTick
    /\ maxIterations' = S.maxIterations
    /\ pivots' = S.pivots

\* the client's variables
x == Variable(0)
y == Variable(1)
z == Variable(2)
w == Variable(3)
Variables == {x, y, z, w}

\* what updateVariables would report now
Report == updateVariables(Self, value)

\* the trail after one more call
Trail ==
    IF client.traces
    THEN [prevCall |-> lastCall, value1 |-> value, report1 |-> Report, report2 |-> trail.report1,
          constraints1 |-> getConstraints(Self),
          editVariables1 |-> {v \in Variables : hasEditVariable(Self, v)}]
    ELSE trail

\* the expression k1*v1 + k2*v2 + c
Term(k, v) == <<v, k>>
Expression(terms, constant) == [terms |-> terms, constant |-> constant]

\* the constraints the client constructs before it uses the solver take the ids below PoolSize
PoolSize == 32

\* public maxIterations = 1000
DefaultMaxIterations == 1000

Call(op, cn, var, val, err) == [op |-> op, cn |-> cn, var |-> var, val |-> val, err |-> err]

\* the client may make another call
Ready == calls < client.limit /\ (client.stops => lastCall.err = "ok")

InitClient(limit, stops, traces) ==
    /\ cnMap = <<>>
    /\ rowMap = <<>>
    /\ varMap = <<>>
    /\ editMap = <<>>
    /\ infeasibleRows = <<>>
    /\ objective = Row(Zero)
    /\ artificial = <<>>
    /\ idTick = 0
    /\ maxIterations = DefaultMaxIterations
    /\ value = [v \in Variables |-> Zero]
    /\ CnId = PoolSize
    /\ calls = 0
    /\ lastCall = Call("new", -1, -1, Zero, "ok")
    /\ trail = [prevCall |-> Call("new", -1, -1, Zero, "ok"),
                value1 |-> [v \in Variables |-> Zero],
                report1 |-> [v \in Variables |-> Zero],
                report2 |-> [v \in Variables |-> Zero],
                constraints1 |-> <<>>,
                editVariables1 |-> {}]
    /\ suggested = [v \in Variables |-> Zero]
    /\ pivots = <<>>
    /\ client = [limit |-> limit, stops |-> stops, traces |-> traces]

AddConstraint(c) ==
    /\ Ready
    /\ \E r \in {addConstraint(Self, c)} :
        /\ Becomes(r.s)
        /\ lastCall' = Call("addConstraint", c.id, -1, Zero, r.err)
    /\ calls' = calls + 1
    /\ trail' = Trail
    /\ UNCHANGED <<value, CnId, suggested, client>>

RemoveConstraint(c) ==
    /\ Ready
    /\ \E r \in {removeConstraint(Self, c)} :
        /\ Becomes(r.s)
        /\ lastCall' = Call("removeConstraint", c.id, -1, Zero, r.err)
    /\ calls' = calls + 1
    /\ trail' = Trail
    /\ UNCHANGED <<value, CnId, suggested, client>>

AddEditVariable(v, strength) ==
    /\ Ready
    /\ \E r \in {addEditVariable(Self, v, strength, CnId)} :
        /\ Becomes(r.s)
        /\ CnId' = IF r.made THEN CnId + 1 ELSE CnId
        /\ lastCall' = Call("addEditVariable", -1, v.id, Zero, r.err)
        /\ suggested' = IF r.err = "ok" THEN [suggested EXCEPT ![v] = Zero] ELSE suggested
    /\ calls' = calls + 1
    /\ trail' = Trail
    /\ UNCHANGED <<value, client>>

RemoveEditVariable(v) ==
    /\ Ready
    /\ \E r \in {removeEditVariable(Self, v)} :
        /\ Becomes(r.s)
        /\ lastCall' = Call("removeEditVariable", -1, v.id, Zero, r.err)
    /\ calls' = calls + 1
    /\ trail' = Trail
    /\ UNCHANGED <<value, CnId, suggested, client>>

SuggestValue(v, val) ==
    /\ Ready
    /\ \E r \in {suggestValue(Self, v, val)} :
        /\ Becomes(r.s)
        /\ lastCall' = Call("suggestValue", -1, v.id, val, r.err)
        /\ suggested' = IF r.err = "ok" THEN [suggested EXCEPT ![v] = val] ELSE suggested
    /\ calls' = calls + 1
    /\ trail' = Trail
    /\ UNCHANGED <<value, CnId, client>>

UpdateVariables ==
    /\ Ready
    /\ value' = updateVariables(Self, value)
    /\ lastCall' = Call("updateVariables", -1, -1, Zero, "ok")
    /\ calls' = calls + 1
    /\ trail' = Trail
    /\ pivots' = <<>>
    /\ UNCHANGED <<solverVars, CnId, suggested, client>>

\* solver.maxIterations = n
SetMaxIterations(n) ==
    /\ Ready
    /\ maxIterations' = n
    /\ lastCall' = Call("maxIterations", -1, -1, R(n), "ok")
    /\ calls' = calls + 1
    /\ trail' = Trail
    /\ pivots' = <<>>
    /\ UNCHANGED <<cnMap, rowMap, varMap, editMap, infeasibleRows, objective, artificial, idTick,
                   value, CnId, suggested, client>>

(***************************************************************************)
(* Spec: a client with two variables, a pool of constraints and edit       *)
(* variables, which makes at most MaxCalls calls and stops at the first    *)
(* call that throws.                                                       *)
(***************************************************************************)
\* x >= 10, x <= 5 and x + y = 10, required; x = 7 strong, x = 3 medium, x = 1 weak, y = 0 weak
xGe10 == Constraint(0, Expression(<<Term(One, x)>>, R(-10)), "Ge", required)
xLe5 == Constraint(1, Expression(<<Term(One, x)>>, R(-5)), "Le", required)
sumIs10 == Constraint(2, Expression(<<Term(One, x), Term(One, y)>>, R(-10)), "Eq", required)
xIs7 == Constraint(3, Expression(<<Term(One, x)>>, R(-7)), "Eq", strong)
yIs0 == Constraint(4, Expression(<<Term(One, y)>>, Zero), "Eq", weak)
xIs3 == Constraint(5, Expression(<<Term(One, x)>>, R(-3)), "Eq", medium)
xIs1 == Constraint(6, Expression(<<Term(One, x)>>, R(-1)), "Eq", weak)

Pool == {xGe10, xLe5, sumIs10, xIs7, yIs0}
EditVariables == {x}
EditStrengths == {strong}
SuggestValues == {R(4), R(12)}

MaxCalls == 5

Init == InitClient(MaxCalls, TRUE, TRUE)

Next ==
    \/ \E c \in Pool : AddConstraint(c)
    \/ \E c \in Pool : RemoveConstraint(c)
    \/ \E v \in EditVariables, s \in EditStrengths : AddEditVariable(v, s)
    \/ \E v \in EditVariables : RemoveEditVariable(v)
    \/ \E v \in EditVariables, val \in SuggestValues : SuggestValue(v, val)
    \/ UpdateVariables

Spec == Init /\ [][Next]_vars

(***************************************************************************)
(* SpecCaught: a client that catches what the solver throws and goes on    *)
(* calling it.                                                             *)
(***************************************************************************)
PoolCaught == {xGe10, xLe5, xIs7}

MaxCaughtCalls == 4

InitCaught == InitClient(MaxCaughtCalls, FALSE, TRUE)

NextCaught ==
    \/ \E c \in PoolCaught : AddConstraint(c)
    \/ \E c \in PoolCaught : RemoveConstraint(c)
    \/ \E v \in EditVariables, s \in EditStrengths : AddEditVariable(v, s)
    \/ \E v \in EditVariables : RemoveEditVariable(v)
    \/ \E v \in EditVariables, val \in SuggestValues : SuggestValue(v, val)
    \/ UpdateVariables

SpecCaught == InitCaught /\ [][NextCaught]_vars

(***************************************************************************)
(* SpecGoals: goals of different strengths on x, added and removed in any  *)
(* order, beside the required x + y = 10 and the weak y = 0.               *)
(***************************************************************************)
PoolGoals == {sumIs10, xIs7, yIs0, xIs3, xIs1}

MaxGoalCalls == 5

InitGoals == InitClient(MaxGoalCalls, TRUE, FALSE)

NextGoals ==
    \/ \E c \in PoolGoals : AddConstraint(c)
    \/ \E c \in PoolGoals : RemoveConstraint(c)
    \/ UpdateVariables

SpecGoals == InitGoals /\ [][NextGoals]_vars

(***************************************************************************)
(* SpecEdit: a single edit variable and no constraints.                    *)
(***************************************************************************)
EditValues == {R(-5), Zero, R(8)}

MaxEditCalls == 6

InitEdit == InitClient(MaxEditCalls, TRUE, TRUE)

NextEdit ==
    \/ AddEditVariable(x, strong)
    \/ RemoveEditVariable(x)
    \/ \E val \in EditValues : SuggestValue(x, val)
    \/ UpdateVariables

SpecEdit == InitEdit /\ [][NextEdit]_vars

(***************************************************************************)
(* SpecLayout: the example of the README.  left and width are edit         *)
(* variables at strength strong; the client adds one required equality,    *)
(* for right or for centerX, before or after it suggests values.           *)
(***************************************************************************)
left == x
width == y
right == z
centerX == w

\* new Constraint(new Expression([-1, right], left, width), Operator.Eq)
rightIsLeftPlusWidth ==
    Constraint(7, Expression(<<Term(R(-1), right), Term(One, left), Term(One, width)>>, Zero),
               "Eq", required)
\* -centerX + left + 0.5 * width = 0
centerXIsMiddle ==
    Constraint(8, Expression(<<Term(R(-1), centerX), Term(One, left), Term(Q(1, 2), width)>>, Zero),
               "Eq", required)

PoolLayout == {rightIsLeftPlusWidth, centerXIsMiddle}
LeftValues == {Zero, R(100), R(200)}
WidthValues == {R(400), R(500), R(600)}

MaxLayoutCalls == 9

InitLayout == InitClient(MaxLayoutCalls, TRUE, TRUE)

\* solver.addEditVariable(left, Strength.strong), then width
LayoutEditVariable(v) ==
    /\ ~hasEditVariable(Self, v)
    /\ v = width => hasEditVariable(Self, left)
    /\ AddEditVariable(v, strong)

LayoutConstraint(c) ==
    /\ hasEditVariable(Self, width)
    /\ \A c2 \in PoolLayout : ~hasConstraint(Self, c2)
    /\ AddConstraint(c)

LayoutSuggest(v, val) ==
    /\ hasEditVariable(Self, width)
    /\ SuggestValue(v, val)

LayoutUpdate ==
    /\ \E c \in PoolLayout : hasConstraint(Self, c)
    /\ UpdateVariables

NextLayout ==
    \/ \E v \in {left, width} : LayoutEditVariable(v)
    \/ \E c \in PoolLayout : LayoutConstraint(c)
    \/ \E val \in LeftValues : LayoutSuggest(left, val)
    \/ \E val \in WidthValues : LayoutSuggest(width, val)
    \/ LayoutUpdate

SpecLayout == InitLayout /\ [][NextLayout]_vars

(***************************************************************************)
(* SpecDocumented: the example of the API reference.  The constraint is    *)
(* built as new Constraint(expr, Operator.Eq, Strength.required): the      *)
(* third argument of the constructor is rhs, the strength is the default.  *)
(***************************************************************************)
\* const expr = new kiwi.Expression([-1, centerX], left, [0.5, width])
\* new kiwi.Constraint(expr, kiwi.Operator.Eq, kiwi.Strength.required)
documented ==
    ConstraintRhs(9, Expression(<<Term(R(-1), centerX), Term(One, left), Term(Q(1, 2), width)>>, Zero),
                  "Eq", R(required), required)

MaxDocumentedCalls == 7

InitDocumented == InitClient(MaxDocumentedCalls, TRUE, TRUE)

DocumentedEditVariable(v) ==
    /\ ~hasEditVariable(Self, v)
    /\ v = width => hasEditVariable(Self, left)
    /\ AddEditVariable(v, strong)

DocumentedConstraint ==
    /\ hasEditVariable(Self, width)
    /\ ~hasConstraint(Self, documented)
    /\ AddConstraint(documented)

DocumentedSuggest(v, val) ==
    /\ hasConstraint(Self, documented)
    /\ SuggestValue(v, val)

DocumentedUpdate ==
    /\ hasConstraint(Self, documented)
    /\ UpdateVariables

NextDocumented ==
    \/ \E v \in {left, width} : DocumentedEditVariable(v)
    \/ DocumentedConstraint
    \/ \E val \in LeftValues : DocumentedSuggest(left, val)
    \/ \E val \in WidthValues : DocumentedSuggest(width, val)
    \/ DocumentedUpdate

SpecDocumented == InitDocumented /\ [][NextDocumented]_vars

(***************************************************************************)
(* SpecReplace: two required equalities on x that exclude each other,      *)
(* added and removed beside the required x + y = 10 and the weak y = 0.    *)
(***************************************************************************)
xIs5 == Constraint(10, Expression(<<Term(One, x)>>, R(-5)), "Eq", required)
xIs9 == Constraint(11, Expression(<<Term(One, x)>>, R(-9)), "Eq", required)

PoolReplace == {xIs5, xIs9, sumIs10, yIs0}

MaxReplaceCalls == 6

InitReplace == InitClient(MaxReplaceCalls, TRUE, TRUE)

NextReplace ==
    \/ \E c \in PoolReplace : AddConstraint(c)
    \/ \E c \in PoolReplace : RemoveConstraint(c)
    \/ UpdateVariables

SpecReplace == InitReplace /\ [][NextReplace]_vars

(***************************************************************************)
(* SpecEditCaught: a client of two variables that asks for edit variables  *)
(* of any strength, suggests values for and removes variables whether or   *)
(* not they are edit variables, and catches what the solver throws.        *)
(***************************************************************************)
EditCaughtVariables == {x, y}
EditCaughtStrengths == {strong, required, required + 1}

MaxEditCaughtCalls == 4

InitEditCaught == InitClient(MaxEditCaughtCalls, FALSE, TRUE)

NextEditCaught ==
    \/ AddConstraint(sumIs10)
    \/ \E v \in EditCaughtVariables, s \in EditCaughtStrengths : AddEditVariable(v, s)
    \/ \E v \in EditCaughtVariables : RemoveEditVariable(v)
    \/ \E v \in EditCaughtVariables, val \in SuggestValues : SuggestValue(v, val)
    \/ UpdateVariables

SpecEditCaught == InitEditCaught /\ [][NextEditCaught]_vars

(***************************************************************************)
(* SpecValues: a client whose variables y and z may hold a value from      *)
(* earlier use (another solver's updateVariables) when this solver is      *)
(* constructed.                                                            *)
(***************************************************************************)
EarlierValues == {Zero, R(3)}

PoolValues == {sumIs10, xIs7}

MaxValuesCalls == 4

InitValues ==
    /\ cnMap = <<>>
    /\ rowMap = <<>>
    /\ varMap = <<>>
    /\ editMap = <<>>
    /\ infeasibleRows = <<>>
    /\ objective = Row(Zero)
    /\ artificial = <<>>
    /\ idTick = 0
    /\ maxIterations = DefaultMaxIterations
    /\ \E a \in EarlierValues, b \in EarlierValues :
          value = [v \in Variables |-> IF v = y THEN a ELSE IF v = z THEN b ELSE Zero]
    /\ CnId = PoolSize
    /\ calls = 0
    /\ lastCall = Call("new", -1, -1, Zero, "ok")
    /\ trail = [prevCall |-> Call("new", -1, -1, Zero, "ok"),
                value1 |-> value,
                report1 |-> value,
                report2 |-> value,
                constraints1 |-> <<>>,
                editVariables1 |-> {}]
    /\ suggested = [v \in Variables |-> Zero]
    /\ pivots = <<>>
    /\ client = [limit |-> MaxValuesCalls, stops |-> TRUE, traces |-> TRUE]

NextValues ==
    \/ \E c \in PoolValues : AddConstraint(c)
    \/ \E c \in PoolValues : RemoveConstraint(c)
    \/ \E v \in EditVariables, s \in EditStrengths : AddEditVariable(v, s)
    \/ \E v \in EditVariables : RemoveEditVariable(v)
    \/ \E v \in EditVariables, val \in SuggestValues : SuggestValue(v, val)
    \/ UpdateVariables

SpecValues == InitValues /\ [][NextValues]_vars

(***************************************************************************)
(* SpecCeiling: a client that sets maxIterations to a small number at any  *)
(* time between its calls.                                                 *)
(***************************************************************************)
Ceilings == {0, 1, 2}

PoolCeiling == {xLe5, sumIs10, xIs7, yIs0}

MaxCeilingCalls == 5

InitCeiling == InitClient(MaxCeilingCalls, TRUE, TRUE)

NextCeiling ==
    \/ \E n \in Ceilings : SetMaxIterations(n)
    \/ \E c \in PoolCeiling : AddConstraint(c)
    \/ \E v \in EditVariables, s \in EditStrengths : AddEditVariable(v, s)
    \/ \E v \in EditVariables, val \in SuggestValues : SuggestValue(v, val)
    \/ UpdateVariables

SpecCeiling == InitCeiling /\ [][NextCeiling]_vars

(***************************************************************************)
(* SpecStrength: a client that picks two triples of levels, low and high,  *)
(* makes a strength of each with Strength.create (weight 1) and gives the  *)
(* solver the goals x = 0 of the one strength and x = 1 of the other.      *)
(***************************************************************************)
Levels == {0, 1, 1000}

MaxStrengthCalls == 3

created(levels) == StrengthCreate(levels[1], levels[2], levels[3], 1)

lowGoal == Constraint(12, Expression(<<Term(One, x)>>, Zero), "Eq", created(client.low))
highGoal == Constraint(13, Expression(<<Term(One, x)>>, R(-1)), "Eq", created(client.high))

InitStrength ==
    /\ cnMap = <<>>
    /\ rowMap = <<>>
    /\ varMap = <<>>
    /\ editMap = <<>>
    /\ infeasibleRows = <<>>
    /\ objective = Row(Zero)
    /\ artificial = <<>>
    /\ idTick = 0
    /\ maxIterations = DefaultMaxIterations
    /\ value = [v \in Variables |-> Zero]
    /\ CnId = PoolSize
    /\ calls = 0
    /\ lastCall = Call("new", -1, -1, Zero, "ok")
    /\ trail = [prevCall |-> Call("new", -1, -1, Zero, "ok"),
                value1 |-> [v \in Variables |-> Zero],
                report1 |-> [v \in Variables |-> Zero],
                report2 |-> [v \in Variables |-> Zero],
                constraints1 |-> <<>>,
                editVariables1 |-> {}]
    /\ suggested = [v \in Variables |-> Zero]
    /\ pivots = <<>>
    /\ \E low \in Levels \X Levels \X Levels, high \in Levels \X Levels \X Levels :
          client = [limit |-> MaxStrengthCalls, stops |-> TRUE, traces |-> FALSE,
                    low |-> low, high |-> high]

NextStrength ==
    \/ AddConstraint(lowGoal)
    \/ AddConstraint(highGoal)
    \/ UpdateVariables

SpecStrength == InitStrength /\ [][NextStrength]_vars

(***************************************************************************)
(* SpecIndexedMap: a client that keeps an IndexedMap of its own, client.map,*)
(* and calls insert, setDefault and erase on it; client.inserted lists the *)
(* keys now in the map in the order in which they were inserted.           *)
(***************************************************************************)
MapValues == {0, 1}

MaxMapCalls == 5

InitIndexedMap ==
    /\ cnMap = <<>>
    /\ rowMap = <<>>
    /\ varMap = <<>>
    /\ editMap = <<>>
    /\ infeasibleRows = <<>>
    /\ objective = Row(Zero)
    /\ artificial = <<>>
    /\ idTick = 0
    /\ maxIterations = DefaultMaxIterations
    /\ value = [v \in Variables |-> Zero]
    /\ CnId = PoolSize
    /\ calls = 0
    /\ lastCall = Call("new", -1, -1, Zero, "ok")
    /\ trail = [prevCall |-> Call("new", -1, -1, Zero, "ok"),
                value1 |-> [v \in Variables |-> Zero],
                report1 |-> [v \in Variables |-> Zero],
                report2 |-> [v \in Variables |-> Zero],
                constraints1 |-> <<>>,
                editVariables1 |-> {}]
    /\ suggested = [v \in Variables |-> Zero]
    /\ pivots = <<>>
    /\ client = [limit |-> MaxMapCalls, stops |-> TRUE, traces |-> FALSE,
                 map |-> <<>>, inserted |-> <<>>]

\* what is left of the insertion order once key is in the map, and once it is erased
Inserted(key) ==
    IF MapContains(client.map, key) THEN client.inserted ELSE Append(client.inserted, key)

Surviving(key) == SelectSeq(client.inserted, LAMBDA k : k.id # key.id)

MapCall(op, key, map, inserted) ==
    /\ Ready
    /\ client' = [client EXCEPT !.map = map, !.inserted = inserted]
    /\ lastCall' = Call(op, -1, key.id, Zero, "ok")
    /\ calls' = calls + 1
    /\ pivots' = <<>>
    /\ UNCHANGED <<solverVars, value, CnId, trail, suggested>>

Insert(key, val) == MapCall("insert", key, MapInsert(client.map, key, val), Inserted(key))

SetDefault(key, val) ==
    MapCall("setDefault", key, MapSetDefault(client.map, key, val), Inserted(key))

Erase(key) == MapCall("erase", key, MapErase(client.map, key), Surviving(key))

NextIndexedMap ==
    \/ \E key \in Variables, val \in MapValues : Insert(key, val)
    \/ \E key \in Variables, val \in MapValues : SetDefault(key, val)
    \/ \E key \in Variables : Erase(key)

SpecIndexedMap == InitIndexedMap /\ [][NextIndexedMap]_vars

(***************************************************************************)
(* Expression construction: parseArgs over the arguments of                *)
(* new Expression(...).  An argument is a number k, a Variable v, an       *)
(* Expression e, or a pair [k, v] or [k, e]; every item record carries all *)
(* three fields and uses those of its kind.                                *)
(***************************************************************************)
NoExpression == Expression(<<>>, Zero)

NumberItem(k) == [kind |-> "number", k |-> k, v |-> x, e |-> NoExpression]
VariableItem(v) == [kind |-> "variable", k |-> One, v |-> v, e |-> NoExpression]
ExpressionItem(e) == [kind |-> "expression", k |-> One, v |-> x, e |-> e]
PairVariableItem(k, v) == [kind |-> "pairVariable", k |-> k, v |-> v, e |-> NoExpression]
PairExpressionItem(k, e) == [kind |-> "pairExpression", k |-> k, v |-> x, e |-> e]

\* addTerm that stores the coefficient in place of adding it
setTerm(terms, variable, coefficient) ==
    IF MapContains(terms, variable)
    THEN [terms EXCEPT ![MapIndex(terms, variable)] = <<variable, coefficient>>]
    ELSE Append(terms, <<variable, coefficient>>)

\* terms.setDefault(variable, factory).second += coefficient
addTerm(terms, variable, coefficient) ==
    IF MapContains(terms, variable)
    THEN [terms EXCEPT ![MapIndex(terms, variable)] = <<variable, RAdd(@[2], coefficient)>>]
    ELSE Append(terms, <<variable, RAdd(Zero, coefficient)>>)

\* for (j ...) terms.setDefault(termPair.first, factory).second += termPair.second
RECURSIVE addTerms(_, _, _)
addTerms(terms, terms2, j) ==
    IF j > Len(terms2) THEN terms
    ELSE addTerms(addTerm(terms, terms2[j][1], terms2[j][2]), terms2, j + 1)

\* for (j ...) terms.setDefault(termPair.first, factory).second += termPair.second * value
RECURSIVE addTermsTimes(_, _, _, _)
addTermsTimes(terms, terms2, j, k) ==
    IF j > Len(terms2) THEN terms
    ELSE addTermsTimes(addTerm(terms, terms2[j][1], RMul(terms2[j][2], k)), terms2, j + 1, k)

\* one turn of the loop of parseArgs
parseItem(parsed, item) ==
    IF item.kind = "number"
    THEN [parsed EXCEPT !.constant = RAdd(@, item.k)]
    ELSE IF item.kind = "variable"
    THEN [parsed EXCEPT !.terms = addTerm(@, item.v, One)]
    ELSE IF item.kind = "expression"
    THEN [terms |-> addTerms(parsed.terms, item.e.terms, 1),
          constant |-> RAdd(parsed.constant, item.e.constant)]
    ELSE IF item.kind = "pairVariable"
    THEN [parsed EXCEPT !.terms = addTerm(@, item.v, item.k)]
    ELSE [terms |-> addTermsTimes(parsed.terms, item.e.terms, 1, item.k),
          constant |-> RAdd(parsed.constant, RMul(item.e.constant, item.k))]

RECURSIVE parseFrom(_, _, _)
parseFrom(args, i, parsed) ==
    IF i > Len(args) THEN parsed
    ELSE parseFrom(args, i + 1, parseItem(parsed, args[i]))

parseArgs(args) == parseFrom(args, 1, [terms |-> <<>>, constant |-> Zero])

\* new Expression(...args)
NewExpression(args) == Expression(parseArgs(args).terms, parseArgs(args).constant)

(***************************************************************************)
(* SpecExpression: a client that picks a list of at most MaxArgs arguments *)
(* (client.args), some of them nested Expressions, and constructs an       *)
(* Expression of them (client.built, a sequence of zero or one Expression).*)
(***************************************************************************)
inner == NewExpression(<<VariableItem(x), NumberItem(One), PairVariableItem(R(2), y)>>)

Items ==
    {NumberItem(R(2)), VariableItem(x), VariableItem(y), ExpressionItem(inner),
     PairVariableItem(R(3), x), PairVariableItem(R(-1), y), PairExpressionItem(R(-2), inner)}

MaxArgs == 3

MaxExpressionCalls == 2

ArgumentLists == UNION {[1..n -> Items] : n \in 1..MaxArgs}

InitExpression ==
    /\ cnMap = <<>>
    /\ rowMap = <<>>
    /\ varMap = <<>>
    /\ editMap = <<>>
    /\ infeasibleRows = <<>>
    /\ objective = Row(Zero)
    /\ artificial = <<>>
    /\ idTick = 0
    /\ maxIterations = DefaultMaxIterations
    /\ value = [v \in Variables |-> Zero]
    /\ CnId = PoolSize
    /\ calls = 0
    /\ lastCall = Call("new", -1, -1, Zero, "ok")
    /\ trail = [prevCall |-> Call("new", -1, -1, Zero, "ok"),
                value1 |-> [v \in Variables |-> Zero],
                report1 |-> [v \in Variables |-> Zero],
                report2 |-> [v \in Variables |-> Zero],
                constraints1 |-> <<>>,
                editVariables1 |-> {}]
    /\ suggested = [v \in Variables |-> Zero]
    /\ pivots = <<>>
    /\ \E args \in ArgumentLists :
          client = [limit |-> MaxExpressionCalls, stops |-> TRUE, traces |-> FALSE,
                    args |-> args, built |-> <<>>]

\* built = new Expression(...args)
ConstructExpression ==
    /\ Ready
    /\ client.built = <<>>
    /\ client' = [client EXCEPT !.built = <<NewExpression(client.args)>>]
    /\ lastCall' = Call("Expression", -1, -1, Zero, "ok")
    /\ calls' = calls + 1
    /\ pivots' = <<>>
    /\ UNCHANGED <<solverVars, value, CnId, trail, suggested>>

\* the client gives the solver the constraint built = 0, required
UseExpression ==
    /\ client.built # <<>>
    /\ AddConstraint(Constraint(14, client.built[1], "Eq", required))

NextExpression ==
    \/ ConstructExpression
    \/ UseExpression

SpecExpression == InitExpression /\ [][NextExpression]_vars

(***************************************************************************)
(* Constraint construction: new Constraint(lhs, operator, rhs, strength),  *)
(* lhs a Variable or an Expression, rhs a number, a Variable, an           *)
(* Expression or undefined, strength a sequence of zero numbers (omitted)  *)
(* or one.                                                                 *)
(***************************************************************************)
UndefinedItem == [kind |-> "undefined", k |-> One, v |-> x, e |-> NoExpression]

\* parseArgs on [k, undefined]
PairUndefined == "array item 1 must be a variable or expression"

\* the second argument of new Expression(this, ...) in minus(value)
minusArgument(item) ==
    IF item.kind = "number" THEN NumberItem(RNeg(item.k))
    ELSE IF item.kind = "variable" THEN PairVariableItem(R(-1), item.v)
    ELSE PairExpressionItem(R(-1), item.e)

\* Variable.minus(value) and Expression.minus(value), the receiver and the value given as items
itemMinus(receiver, item) ==
    IF item.kind = "undefined"
    THEN [e |-> NoExpression, err |-> PairUndefined]
    ELSE [e |-> NewExpression(<<receiver, minusArgument(item)>>), err |-> "ok"]

\* strength = Strength.required when omitted
strengthGiven(strength) == IF strength = <<>> THEN required ELSE strength[1]

constructed(id, difference, operator, strength) ==
    [c |-> [id |-> id, expression |-> difference.e, op |-> operator,
            strength |-> StrengthClip(strengthGiven(strength))],
     err |-> difference.err]

NewConstraint(id, lhs, operator, rhs, strength) ==
    IF rhs.kind = "undefined" /\ lhs.kind = "expression"
    THEN constructed(id, [e |-> lhs.e, err |-> "ok"], operator, strength)
    ELSE constructed(id, itemMinus(lhs, rhs), operator, strength)

(***************************************************************************)
(* SpecConstraint: a client that picks lhs, operator, rhs and strength     *)
(* (client.lhs, .operator, .rhs, .strength), constructs a Constraint of    *)
(* them (client.made, a sequence of zero or one outcome) and, when the     *)
(* constructor returned, adds the Constraint to the solver.                *)
(***************************************************************************)
Lefts == {VariableItem(x), ExpressionItem(inner)}
Rights == {UndefinedItem, NumberItem(R(2)), VariableItem(y), ExpressionItem(inner)}
Operators == {"Le", "Ge", "Eq"}
StrengthArguments == {<<>>, <<weak>>, <<required + 1>>, <<-1>>}

MaxConstraintCalls == 2

InitConstraint ==
    /\ cnMap = <<>>
    /\ rowMap = <<>>
    /\ varMap = <<>>
    /\ editMap = <<>>
    /\ infeasibleRows = <<>>
    /\ objective = Row(Zero)
    /\ artificial = <<>>
    /\ idTick = 0
    /\ maxIterations = DefaultMaxIterations
    /\ value = [v \in Variables |-> Zero]
    /\ CnId = PoolSize
    /\ calls = 0
    /\ lastCall = Call("new", -1, -1, Zero, "ok")
    /\ trail = [prevCall |-> Call("new", -1, -1, Zero, "ok"),
                value1 |-> [v \in Variables |-> Zero],
                report1 |-> [v \in Variables |-> Zero],
                report2 |-> [v \in Variables |-> Zero],
                constraints1 |-> <<>>,
                editVariables1 |-> {}]
    /\ suggested = [v \in Variables |-> Zero]
    /\ pivots = <<>>
    /\ \E lhs \in Lefts, operator \in Operators, rhs \in Rights, strength \in StrengthArguments :
          client = [limit |-> MaxConstraintCalls, stops |-> TRUE, traces |-> FALSE,
                    lhs |-> lhs, operator |-> operator, rhs |-> rhs, strength |-> strength,
                    made |-> <<>>]

\* made = new Constraint(lhs, operator, rhs, strength), or what it threw
ConstructConstraint ==
    /\ Ready
    /\ client.made = <<>>
    /\ \E r \in {NewConstraint(15, client.lhs, client.operator, client.rhs, client.strength)} :
          /\ client' = [client EXCEPT !.made = <<r>>]
          /\ lastCall' = Call("Constraint", 15, -1, Zero, r.err)
    /\ calls' = calls + 1
    /\ pivots' = <<>>
    /\ UNCHANGED <<solverVars, value, CnId, trail, suggested>>

UseConstraint ==
    /\ client.made # <<>>
    /\ AddConstraint(client.made[1].c)

NextConstraint ==
    \/ ConstructConstraint
    \/ UseConstraint

SpecConstraint == InitConstraint /\ [][NextConstraint]_vars

(***************************************************************************)
(* SpecRow: a client that keeps a Row of its own, client.row, and calls    *)
(* the operations of Row on it.  The row it starts from has no cell within *)
(* eps of zero; Small is a coefficient just outside eps.  The client makes *)
(* one call on the row it drew: the exact coefficients of a second call    *)
(* on a row with cells of the size of eps do not fit the integers.         *)
(***************************************************************************)
Small == Q(3, EpsInv)

RowKeys == {Symbol("External", 1), Symbol("Slack", 2), Symbol("Error", 3)}

RowCoefficients == {One, R(-4), Small}

RowConstants == {Zero, One}

\* the coefficients the client passes to insertSymbol and insertRow
Scales == {One, R(-1), Q(1, 4)}

\* the rows the client inserts and substitutes
OtherRows ==
    {[constant |-> One, cells |-> <<<<Symbol("Slack", 2), One>>>>],
     [constant |-> Zero, cells |-> <<<<Symbol("Error", 3), R(-4)>>, <<Symbol("External", 1), One>>>>]}

MaxRowCalls == 1

\* the rows the client starts from: at most two cells, at most one of them Small
StartRows ==
    {[constant |-> c, cells |-> <<>>] : c \in RowConstants}
        \cup {[constant |-> c, cells |-> <<<<s, k>>>>] :
                  c \in RowConstants, s \in RowKeys, k \in RowCoefficients}
        \cup {[constant |-> c, cells |-> <<<<p[1], p[3]>>, <<p[2], p[4]>>>>] :
                  c \in RowConstants,
                  p \in {q \in RowKeys \X RowKeys \X RowCoefficients \X RowCoefficients :
                             q[1] # q[2] /\ (q[3] # Small \/ q[4] # Small)}}

InitRow ==
    /\ cnMap = <<>>
    /\ rowMap = <<>>
    /\ varMap = <<>>
    /\ editMap = <<>>
    /\ infeasibleRows = <<>>
    /\ objective = Row(Zero)
    /\ artificial = <<>>
    /\ idTick = 0
    /\ maxIterations = DefaultMaxIterations
    /\ value = [v \in Variables |-> Zero]
    /\ CnId = PoolSize
    /\ calls = 0
    /\ lastCall = Call("new", -1, -1, Zero, "ok")
    /\ trail = [prevCall |-> Call("new", -1, -1, Zero, "ok"),
                value1 |-> [v \in Variables |-> Zero],
                report1 |-> [v \in Variables |-> Zero],
                report2 |-> [v \in Variables |-> Zero],
                constraints1 |-> <<>>,
                editVariables1 |-> {}]
    /\ suggested = [v \in Variables |-> Zero]
    /\ pivots = <<>>
    /\ \E row \in StartRows :
           client = [limit |-> MaxRowCalls, stops |-> TRUE, traces |-> FALSE, row |-> row]

RowCall(op, row) ==
    /\ Ready
    /\ client' = [client EXCEPT !.row = row]
    /\ lastCall' = Call(op, -1, -1, Zero, "ok")
    /\ calls' = calls + 1
    /\ pivots' = <<>>
    /\ UNCHANGED <<solverVars, value, CnId, trail, suggested>>

InsertSymbol(symbol, coefficient) ==
    RowCall("insertSymbol", insertSymbol(client.row, symbol, coefficient))

InsertRow(other, coefficient) == RowCall("insertRow", insertRow(client.row, other, coefficient))

ReverseSign == RowCall("reverseSign", reverseSign(client.row))

\* solveFor reads the cell of symbol: the symbol must exist in the row
SolveFor(symbol) ==
    /\ MapContains(client.row.cells, symbol)
    /\ RowCall("solveFor", solveFor(client.row, symbol))

\* lhs is the basic symbol of the row and no cell of it; rhs must exist in the row
SolveForEx(lhs, rhs) ==
    /\ ~MapContains(client.row.cells, lhs)
    /\ MapContains(client.row.cells, rhs)
    /\ RowCall("solveForEx", solveForEx(client.row, lhs, rhs))

Substitute(symbol, other) == RowCall("substitute", substitute(client.row, symbol, other))

NextRow ==
    \/ \E symbol \in RowKeys, coefficient \in Scales : InsertSymbol(symbol, coefficient)
    \/ \E other \in OtherRows, coefficient \in Scales : InsertRow(other, coefficient)
    \/ ReverseSign
    \/ \E symbol \in RowKeys : SolveFor(symbol)
    \/ \E lhs, rhs \in RowKeys : SolveForEx(lhs, rhs)
    \/ \E symbol \in RowKeys, other \in OtherRows : Substitute(symbol, other)

SpecRow == InitRow /\ [][NextRow]_vars

(***************************************************************************)
(* SpecRedundant: required equalities on x and y that repeat, imply and    *)
(* exclude each other, added and removed by a client that stops at the     *)
(* first throw.                                                            *)
(***************************************************************************)
xIs5Again == Constraint(16, Expression(<<Term(One, x)>>, R(-5)), "Eq", required)
twiceXIs10 == Constraint(17, Expression(<<Term(R(2), x)>>, R(-10)), "Eq", required)
yIs5 == Constraint(18, Expression(<<Term(One, y)>>, R(-5)), "Eq", required)

PoolRedundant == {xIs5, xIs5Again, twiceXIs10, xIs9, yIs5, sumIs10}

MaxRedundantCalls == 5

InitRedundant == InitClient(MaxRedundantCalls, TRUE, FALSE)

NextRedundant ==
    \/ \E c \in PoolRedundant : AddConstraint(c)
    \/ \E c \in PoolRedundant : RemoveConstraint(c)
    \/ UpdateVariables

SpecRedundant == InitRedundant /\ [][NextRedundant]_vars

(***************************************************************************)
(* SpecClamp: required bounds 3 <= x <= 6 and an edit variable x of a      *)
(* strength below required, added in any order, with suggestions inside,   *)
(* on and outside the bounds.                                              *)
(***************************************************************************)
xGe3 == Constraint(19, Expression(<<Term(One, x)>>, R(-3)), "Ge", required)
xLe6 == Constraint(20, Expression(<<Term(One, x)>>, R(-6)), "Le", required)

ClampStrengths == {strong, medium, weak}

ClampValues == {R(-1), R(3), R(4), R(6), R(9)}

MaxClampCalls == 6

InitClamp == InitClient(MaxClampCalls, TRUE, FALSE)

NextClamp ==
    \/ \E c \in {xGe3, xLe6} : AddConstraint(c)
    \/ \E s \in ClampStrengths : AddEditVariable(x, s)
    \/ \E val \in ClampValues : SuggestValue(x, val)
    \/ UpdateVariables

SpecClamp == InitClamp /\ [][NextClamp]_vars

(***************************************************************************)
(* SpecSoft: inequalities and equalities of strengths below required,      *)
(* added and removed beside required constraints on the same variables,    *)
(* and an edit variable.                                                   *)
(***************************************************************************)
softGe10 == Constraint(21, Expression(<<Term(One, x)>>, R(-10)), "Ge", weak)
softLe5 == Constraint(22, Expression(<<Term(One, x)>>, R(-5)), "Le", strong)
softSumLe4 == Constraint(23, Expression(<<Term(One, x), Term(One, y)>>, R(-4)), "Le", medium)

PoolSoft == {softGe10, softLe5, softSumLe4, xIs7, xGe10, sumIs10}

SoftStrengths == {strong, weak}

MaxSoftCalls == 5

InitSoft == InitClient(MaxSoftCalls, TRUE, FALSE)

NextSoft ==
    \/ \E c \in PoolSoft : AddConstraint(c)
    \/ \E c \in PoolSoft : RemoveConstraint(c)
    \/ \E s \in SoftStrengths : AddEditVariable(y, s)
    \/ UpdateVariables

SpecSoft == InitSoft /\ [][NextSoft]_vars

(***************************************************************************)
(* SpecTight: the required bounds 10 <= x and x <= 10, which leave x one   *)
(* value, beside the strong x = 7 and an edit variable x: the second bound *)
(* is added through an artificial variable that stays basic.               *)
(***************************************************************************)
xLe10 == Constraint(24, Expression(<<Term(One, x)>>, R(-10)), "Le", required)

PoolTight == {xGe10, xLe10, xIs7, sumIs10}

MaxTightCalls == 5

InitTight == InitClient(MaxTightCalls, TRUE, FALSE)

NextTight ==
    \/ \E c \in PoolTight : AddConstraint(c)
    \/ \E c \in PoolTight : RemoveConstraint(c)
    \/ \E s \in EditStrengths : AddEditVariable(x, s)
    \/ \E val \in SuggestValues : SuggestValue(x, val)
    \/ UpdateVariables

SpecTight == InitTight /\ [][NextTight]_vars

(***************************************************************************)
(* SpecObtained: a client that removes constraints it obtained from        *)
(* getConstraints(), the constraint of an edit variable among them.        *)
(***************************************************************************)
MaxObtainedCalls == 5

InitObtained == InitClient(MaxObtainedCalls, TRUE, FALSE)

NextObtained ==
    \/ AddConstraint(xIs7)
    \/ \E i \in 1..Len(getConstraints(Self)) : RemoveConstraint(getConstraints(Self)[i])
    \/ \E v \in {x, y} : AddEditVariable(v, strong)
    \/ \E v \in {x, y} : RemoveEditVariable(v)
    \/ \E val \in SuggestValues : SuggestValue(x, val)
    \/ UpdateVariables

SpecObtained == InitObtained /\ [][NextObtained]_vars

(***************************************************************************)
(* What the claims speak of                                                *)
(***************************************************************************)
\* Expression.value(): the constant plus the sum of value * coefficient over the terms
RECURSIVE termsValue(_, _, _)
termsValue(terms, values, i) ==
    IF i > Len(terms) THEN Zero
    ELSE RAdd(RMul(values[terms[i][1]], terms[i][2]), termsValue(terms, values, i + 1))

ExpressionValue(expression, values) == RAdd(expression.constant, termsValue(expression.terms, values, 1))

\* e is in the half-space of the operator, within eps
InHalfSpace(op, e) ==
    IF op = "Le" THEN RLe(e, Zero) \/ nearZero(e)
    ELSE IF op = "Ge" THEN RLe(Zero, e) \/ nearZero(e)
    ELSE nearZero(e)

Holds(cn, values) == InHalfSpace(cn.op, ExpressionValue(cn.expression, values))

\* every required constraint in the solver holds of the values
RequiredHold(values) ==
    \A i \in 1..Len(cnMap) : cnMap[i][1].strength = required => Holds(cnMap[i][1], values)

\* the last value suggested for the edit variable whose constraint cn is; 0 for other constraints
EditTarget(cn) ==
    IF \E i \in 1..Len(editMap) : editMap[i][2].constraint.id = cn.id
    THEN suggested[editMap[CHOOSE i \in 1..Len(editMap) : editMap[i][2].constraint.id = cn.id][1]]
    ELSE Zero

\* the amount by which e violates the operator
ViolationOf(op, e) ==
    IF op = "Le" THEN (IF RLt(Zero, e) THEN e ELSE Zero)
    ELSE IF op = "Ge" THEN (IF RLt(e, Zero) THEN RNeg(e) ELSE Zero)
    ELSE RAbs(e)

Violation(cn, values) ==
    ViolationOf(cn.op, RSub(ExpressionValue(cn.expression, values), EditTarget(cn)))

\* the sum over the non-required constraints of strength times violation
RECURSIVE CostFrom(_, _)
CostFrom(values, i) ==
    IF i > Len(cnMap) THEN Zero
    ELSE IF cnMap[i][1].strength = required THEN CostFrom(values, i + 1)
    ELSE RAdd(RMul(R(cnMap[i][1].strength), Violation(cnMap[i][1], values)), CostFrom(values, i + 1))

Cost(values) == CostFrom(values, 1)

\* the assignments the reported values are compared with: x and y on a grid of integers
\* (the constraints of Pool have coefficients 1 on x and y and integer constants, so
\* a least cost is attained at integers)
GridLow == 2
GridMax == 12
Candidate(a, b) == [value EXCEPT ![x] = R(a), ![y] = R(b)]

\* no assignment of the grid that satisfies the required constraints costs less than least
NoneBelow(least) ==
    \A a \in (-GridLow)..GridMax, b \in (-GridLow)..GridMax :
        RequiredHold(Candidate(a, b)) => RLe(least, Cost(Candidate(a, b)))

(***************************************************************************)
(* C1..C10                                                                 *)
(***************************************************************************)
\* C1: after successful calls followed by updateVariables, the values satisfy every
\* required constraint and no assignment that satisfies the required constraints has
\* a smaller sum of strength times violation over the non-required constraints (an
\* edit variable counting as the goal v = last suggested value).
Thm_C1 ==
    (client.stops /\ lastCall.op = "updateVariables") =>
        /\ RequiredHold(value)
        /\ NoneBelow(Cost(value))

\* a required constraint, a goal that is violated and an edit variable compete
Wit_C1 ==
    /\ client.stops /\ lastCall.op = "updateVariables"
    /\ \E i \in 1..Len(cnMap) : cnMap[i][1].strength = required
    /\ Len(editMap) > 0
    /\ RLt(Zero, Cost(value))

\* C2: after calls that all return successfully, followed by updateVariables, every
\* required constraint in the solver holds of the variables' values (within eps).
Thm_C2 == (client.stops /\ lastCall.op = "updateVariables") => RequiredHold(value)

\* two required constraints hold after a suggestion moved the values
Wit_C2 ==
    /\ client.stops /\ lastCall.op = "updateVariables"
    /\ trail.prevCall.op = "suggestValue"
    /\ Cardinality({i \in 1..Len(cnMap) : cnMap[i][1].strength = required}) >= 2
    /\ value[x] # Zero

\* the last two calls were a successful addConstraint(c) and a successful removeConstraint(c)
AddedThenRemoved ==
    /\ lastCall.op = "removeConstraint" /\ lastCall.err = "ok"
    /\ trail.prevCall.op = "addConstraint" /\ trail.prevCall.err = "ok"
    /\ trail.prevCall.cn = lastCall.cn

\* C5 as stated: addConstraint(c) followed by removeConstraint(c) returns the solver to a
\* state in which updateVariables reports, for every variable, the value it reported
\* before the add.
Orig_C5 == (client.stops /\ AddedThenRemoved) => Report = trail.report2

\* C5: addConstraint(c) followed by removeConstraint(c) returns the solver to a state in
\* which updateVariables reports values as good as those it reported before the add: they
\* satisfy every required constraint and have the same sum of strength times violation
\* (where several assignments attain the least sum, they need not be the same values).
Thm_C5 ==
    (client.stops /\ AddedThenRemoved) =>
        /\ RequiredHold(Report)
        /\ Cost(Report) = Cost(trail.report2)

\* a constraint that moved the reported values was added and removed again
Wit_C5 ==
    /\ client.stops /\ AddedThenRemoved
    /\ trail.report1 # trail.report2
    /\ Len(cnMap) >= 2
    /\ RLt(Zero, Cost(Report))

\* value >= -eps
NonNegative(value_) == RLe(Zero, value_) \/ nearZero(value_)

\* C6 as stated: after every public call that returns successfully, every basic row of
\* the tableau, whatever the type of its basic symbol, has a constant >= -eps.
Orig_C6 ==
    (client.stops /\ lastCall.err = "ok") =>
        \A i \in 1..Len(rowMap) : NonNegative(rowMap[i][2].constant)

\* C6: after every public call that returns successfully, every basic row whose basic
\* symbol is not External (a Slack, Error or Dummy symbol) has a constant >= -eps; the
\* row of an External symbol holds the variable's value and may be negative.
Thm_C6 ==
    (client.stops /\ lastCall.err = "ok") =>
        \A i \in 1..Len(rowMap) :
            rowMap[i][1].type # "External" => NonNegative(rowMap[i][2].constant)

\* a suggestion made a restricted row negative and the dual simplex repaired it
Wit_C6 ==
    /\ client.stops /\ lastCall.err = "ok" /\ lastCall.op = "suggestValue"
    /\ \E i \in 1..Len(rowMap) : rowMap[i][1].type # "External" /\ RLt(Zero, rowMap[i][2].constant)
    /\ \E i \in 1..Len(rowMap) : rowMap[i][1].type = "External" /\ RLt(rowMap[i][2].constant, Zero)

\* C7: after every public call that returns successfully, every non-Dummy symbol in the
\* objective row has a coefficient >= -eps.
Thm_C7 ==
    (client.stops /\ lastCall.err = "ok") =>
        \A i \in 1..Len(objective.cells) :
            objective.cells[i][1].type # "Dummy" => NonNegative(objective.cells[i][2])

\* a suggestion moved the values against a goal: an error variable is basic with a
\* positive constant (the goal is violated) and the objective has positive coefficients
Wit_C7 ==
    /\ client.stops /\ lastCall.err = "ok" /\ lastCall.op = "suggestValue"
    /\ Len(cnMap) >= 3
    /\ \E i \in 1..Len(objective.cells) : RLt(Zero, objective.cells[i][2])
    /\ \E i \in 1..Len(rowMap) : rowMap[i][1].type = "Error" /\ RLt(Zero, rowMap[i][2].constant)

\* C3 (violated by the code): when addConstraint throws 'unsatisfiable constraint', the
\* required constraints already in the solver remain in force: if what updateVariables
\* would have reported before the failed add satisfied them, so do the values that a
\* following updateVariables reports (x >= 10 after required x >= 10, then required x <= 5).
Cex_C3 ==
    (/\ ~client.stops
     /\ lastCall.op = "updateVariables"
     /\ trail.prevCall.op = "addConstraint"
     /\ trail.prevCall.err = "unsatisfiable constraint"
     /\ RequiredHold(trail.report2)) => RequiredHold(value)

\* C4 (violated by the code): a public call that throws leaves the observable state as
\* it was: getConstraints and hasConstraint, hasEditVariable, and the values that
\* updateVariables reports for every variable are those of before the call.
Cex_C4 ==
    (~client.stops /\ lastCall.err # "ok") =>
        /\ getConstraints(Self) = trail.constraints1
        /\ {v \in Variables : hasEditVariable(Self, v)} = trail.editVariables1
        /\ Report = trail.report1

\* C8: the stronger of two conflicting goals on x is met exactly, whatever the order in
\* which the constraints were added: x = 7 when the strong goal is in the solver, x = 3
\* when the medium one is and the strong one is not; and with required x + y = 10,
\* strong x = 7 and weak y = 0, x = 7 and y = 3.
Thm_C8 ==
    (client.stops /\ lastCall.op = "updateVariables") =>
        /\ hasConstraint(Self, xIs7) => value[x] = R(7)
        /\ (hasConstraint(Self, xIs3) /\ ~hasConstraint(Self, xIs7)) => value[x] = R(3)
        /\ (hasConstraint(Self, sumIs10) /\ hasConstraint(Self, xIs7) /\ hasConstraint(Self, yIs0))
              => (value[x] = R(7) /\ value[y] = R(3))

\* the weak goals were added before the strong one, beside x + y = 10: x = 7, y = 3
Wit_C8 ==
    /\ client.stops /\ lastCall.op = "updateVariables"
    /\ hasConstraint(Self, sumIs10) /\ hasConstraint(Self, xIs1)
    /\ MapIndex(cnMap, yIs0) < MapIndex(cnMap, xIs7)
    /\ MapIndex(cnMap, xIs1) < MapIndex(cnMap, xIs7)
    /\ value[x] = R(7) /\ value[y] = R(3)

\* C9: with a single edit variable and no constraints, suggestValue(v, val) followed by
\* updateVariables gives v the value val, whatever was suggested before.
Thm_C9 ==
    (/\ client.stops
     /\ lastCall.op = "updateVariables"
     /\ trail.prevCall.op = "suggestValue"
     /\ trail.prevCall.err = "ok") => value[x] = trail.prevCall.val

\* a negative value was suggested after an earlier, different suggestion had been reported
Wit_C9 ==
    /\ client.stops /\ lastCall.op = "updateVariables"
    /\ trail.prevCall.op = "suggestValue" /\ trail.prevCall.err = "ok"
    /\ RLt(trail.prevCall.val, Zero)
    /\ RLt(Zero, trail.value1[x])
    /\ value[x] = trail.prevCall.val

\* C10: with edit variables left and width at strong, after any suggestions followed by
\* updateVariables, right = last suggested left + last suggested width under the required
\* right = left + width, and centerX = left + width / 2 under the required
\* -centerX + left + 0.5 * width = 0.
Thm_C10 ==
    (client.stops /\ lastCall.op = "updateVariables") =>
        /\ hasConstraint(Self, rightIsLeftPlusWidth) =>
              value[right] = RAdd(suggested[left], suggested[width])
        /\ hasConstraint(Self, centerXIsMiddle) =>
              value[centerX] = RAdd(suggested[left], RMul(Q(1, 2), suggested[width]))

\* right is 800 after 200/600, having been 500 before
Wit_C10 ==
    /\ client.stops /\ lastCall.op = "updateVariables"
    /\ hasConstraint(Self, rightIsLeftPlusWidth)
    /\ suggested[left] = R(200) /\ suggested[width] = R(600)
    /\ trail.value1[right] = R(500)
    /\ value[right] = R(800)

(***************************************************************************)
(* C11..C20                                                                *)
(***************************************************************************)
\* C11 (violated by the code): in the documented example, after suggestValue(left, 0),
\* suggestValue(width, 500) and updateVariables(), centerX.value() is 250.
Cex_C11 ==
    (/\ lastCall.op = "updateVariables"
     /\ hasConstraint(Self, documented)
     /\ suggested[left] = Zero /\ suggested[width] = R(500)
     /\ trail.prevCall.op = "suggestValue" /\ trail.prevCall.err = "ok") => value[centerX] = R(250)

\* C12: once a required x = k1 has been removed, adding the required x = k2 succeeds, and
\* updateVariables gives x the constant of the required equality on x that is in the solver
\* (k1 = 5 and k2 = 9, and the other way round).
Thm_C12 ==
    /\ (/\ lastCall.op = "addConstraint" /\ lastCall.cn = xIs9.id
        /\ lastCall.err # "duplicate constraint"
        /\ ~hasConstraint(Self, xIs5)) => lastCall.err = "ok"
    /\ (/\ lastCall.op = "addConstraint" /\ lastCall.cn = xIs5.id
        /\ lastCall.err # "duplicate constraint"
        /\ ~hasConstraint(Self, xIs9)) => lastCall.err = "ok"
    /\ (lastCall.op = "updateVariables" /\ hasConstraint(Self, xIs9)) => value[x] = R(9)
    /\ (lastCall.op = "updateVariables" /\ hasConstraint(Self, xIs5)) => value[x] = R(5)

\* x = 5 was added, updateVariables gave 5, it was removed, x = 9 was added, updateVariables gives 9
Wit_C12 ==
    /\ lastCall.op = "updateVariables"
    /\ trail.prevCall.op = "addConstraint" /\ trail.prevCall.cn = xIs9.id
    /\ trail.prevCall.err = "ok"
    /\ trail.value1[x] = R(5)
    /\ ~hasConstraint(Self, xIs5)
    /\ value[x] = R(9)

\* C13: addConstraint of a constraint that is in the solver throws 'duplicate constraint' and
\* leaves every field of the solver (rows, objective, constraints, symbol counter) as it was;
\* the removeConstraint of it that follows succeeds, after which hasConstraint is false and,
\* if it was the only constraint, getConstraints is empty.
DuplicateAdd(c) ==
    /\ lastCall'.op = "addConstraint"
    /\ lastCall'.cn = c.id
    /\ hasConstraint(Self, c)

RemovedAfterDuplicate(c) ==
    /\ trail.prevCall.op = "addConstraint" /\ trail.prevCall.cn = c.id
    /\ trail.prevCall.err = "duplicate constraint"
    /\ lastCall.op = "removeConstraint" /\ lastCall.cn = c.id

Thm_C13 ==
    /\ [][\A c \in PoolCaught :
            DuplicateAdd(c) => lastCall'.err = "duplicate constraint" /\ UNCHANGED solverVars]_vars
    /\ [](\A c \in PoolCaught :
            RemovedAfterDuplicate(c) =>
                /\ lastCall.err = "ok"
                /\ ~hasConstraint(Self, c)
                /\ (Len(trail.constraints1) = 1 => getConstraints(Self) = <<>>))

\* the strong x = 7 was added, added again and removed: the solver has no constraint
Wit_C13 ==
    /\ RemovedAfterDuplicate(xIs7)
    /\ Len(trail.constraints1) = 1
    /\ getConstraints(Self) = <<>>
    /\ lastCall.err = "ok"

\* C14: removeConstraint of a constraint that is not in the solver (never added, removed
\* before, or refused by addConstraint) throws 'unknown constraint' and leaves every field of
\* the solver (rows, objective, constraints, edit variables) as it was.
UnknownRemove(c) ==
    /\ lastCall'.op = "removeConstraint"
    /\ lastCall'.cn = c.id
    /\ ~hasConstraint(Self, c)

Thm_C14 ==
    [][\A c \in PoolCaught :
          UnknownRemove(c) => lastCall'.err = "unknown constraint" /\ UNCHANGED solverVars]_vars

\* x <= 5 was refused as unsatisfiable beside x >= 10, then its removal was asked for
Wit_C14 ==
    /\ trail.prevCall.op = "addConstraint" /\ trail.prevCall.cn = xLe5.id
    /\ trail.prevCall.err = "unsatisfiable constraint"
    /\ lastCall.op = "removeConstraint" /\ lastCall.cn = xLe5.id
    /\ lastCall.err = "unknown constraint"
    /\ hasConstraint(Self, xGe10)

\* C15: addEditVariable(v, s) throws 'duplicate edit variable' when v is an edit variable and,
\* when it is not, 'bad required strength' when clip(s) is Strength.required; suggestValue(v, _)
\* and removeEditVariable(v) throw 'unknown edit variable' when v is not an edit variable; each
\* of these calls leaves every field of the solver as it was (no constraint added or removed,
\* no row changed, the edit variables the same), constructs no Constraint and writes no value.
Refused(message) == lastCall'.err = message /\ UNCHANGED <<solverVars, value, CnId>>

Thm_C15 ==
    [][\A v \in EditCaughtVariables :
          /\ \A s \in EditCaughtStrengths :
                /\ (hasEditVariable(Self, v) /\ AddEditVariable(v, s))
                       => Refused("duplicate edit variable")
                /\ (~hasEditVariable(Self, v) /\ StrengthClip(s) = required /\ AddEditVariable(v, s))
                       => Refused("bad required strength")
          /\ (~hasEditVariable(Self, v) /\ RemoveEditVariable(v)) => Refused("unknown edit variable")
          /\ \A val \in SuggestValues :
                (~hasEditVariable(Self, v) /\ SuggestValue(v, val))
                    => Refused("unknown edit variable")]_vars

\* with x + y = 10 and the edit variable y in the solver, a value was suggested for x, which
\* is not an edit variable, and then x was asked for as an edit variable of required strength
Wit_C15 ==
    /\ trail.prevCall.op = "suggestValue" /\ trail.prevCall.var = x.id
    /\ trail.prevCall.err = "unknown edit variable"
    /\ lastCall.op = "addEditVariable" /\ lastCall.var = x.id
    /\ lastCall.err = "bad required strength"
    /\ hasEditVariable(Self, y) /\ ~hasEditVariable(Self, x)
    /\ hasConstraint(Self, sumIs10)

\* C16: addConstraint, removeConstraint, addEditVariable, removeEditVariable and suggestValue
\* leave the value of every Variable as it was, and updateVariables leaves the value of every
\* variable that has no External symbol in the solver as it was.
Thm_C16 ==
    [][/\ lastCall'.op # "updateVariables" => value' = value
       /\ lastCall'.op = "updateVariables" =>
              \A v \in Variables : ~MapContains(varMap, v) => value'[v] = value[v]]_vars

\* updateVariables wrote x and y, of x + y = 10 and x = 7, and left z, never given to the
\* solver, with the value 3 it had
Wit_C16 ==
    /\ lastCall.op = "updateVariables"
    /\ hasConstraint(Self, sumIs10) /\ hasConstraint(Self, xIs7)
    /\ value[x] = R(7) /\ value[y] = R(3) /\ trail.value1[y] = Zero
    /\ ~MapContains(varMap, z) /\ value[z] = R(3)

\* the number of pivots the loop of _dualOptimize makes from S
RECURSIVE dualPivots(_)
dualPivotsEntering(S, leaving, entering) ==
    IF entering.type = "Invalid" THEN 0
    ELSE 1 + dualPivots(pivot(S, leaving, entering))

dualPivotsLeaving(S, leaving) ==
    IF MapContains(S.rowMap, leaving) /\ RLt(MapValue(S.rowMap, leaving).constant, Zero)
    THEN dualPivotsEntering(S, leaving, getDualEnteringSymbol(S, MapValue(S.rowMap, leaving)))
    ELSE dualPivots(S)

dualPivots(S) ==
    IF Len(S.infeasibleRows) = 0 THEN 0
    ELSE dualPivotsLeaving([S EXCEPT !.infeasibleRows = SubSeq(@, 1, Len(@) - 1)],
                           S.infeasibleRows[Len(S.infeasibleRows)])

\* the number of pivots the _dualOptimize of suggestValue(variable, suggestion) makes
suggestPivotsDelta(S, info, delta) ==
    IF MapContains(S.rowMap, info.tag.marker)
    THEN dualPivots(suggestBasic(S, info.tag.marker,
                                 add(MapValue(S.rowMap, info.tag.marker), RNeg(delta))))
    ELSE IF MapContains(S.rowMap, info.tag.other)
    THEN dualPivots(suggestBasic(S, info.tag.other,
                                 add(MapValue(S.rowMap, info.tag.other), delta)))
    ELSE dualPivots(suggestRows(S, info.tag.marker, delta))

suggestPivots(S, variable, suggestion) ==
    suggestPivotsDelta(S, MapValue(S.editMap, variable),
                       RSub(suggestion, MapValue(S.editMap, variable).constant))

\* C17 (violated by the code): the dual-simplex loop of suggestValue makes at most
\* maxIterations pivots, or the call throws 'solver iterations exceeded'.
Cex_C17 ==
    [][\A v \in EditVariables, val \in SuggestValues :
          (hasEditVariable(Self, v) /\ SuggestValue(v, val)) =>
              \/ suggestPivots(Self, v, val) <= maxIterations
              \/ lastCall'.err = "solver iterations exceeded"]_vars

\* C18 (violated by the code): when _optimize(this._objective) throws 'solver iterations
\* exceeded', the objective is not at a minimum (it still has an entering symbol).
Cex_C18 ==
    (lastCall.err = "solver iterations exceeded" /\ artificial = <<>>)
        => getEnteringSymbol(objective).type # "Invalid"

\* C19 (violated by the code): a newly constructed Solver has maxIterations = 10,000.
DocumentedMaxIterations == 10000

Cex_C19 == lastCall.op = "new" => maxIterations = DocumentedMaxIterations

\* (a, b, c) is lexicographically smaller than (a', b', c')
LexLess(p, q) ==
    \/ p[1] < q[1]
    \/ p[1] = q[1] /\ p[2] < q[2]
    \/ p[1] = q[1] /\ p[2] = q[2] /\ p[3] < q[3]

\* C20 (violated by the code): for level triples low and high with every level in 0..1000, if
\* low is lexicographically smaller than high then create(low) < create(high); stated of the
\* strengths of two goals the client made with Strength.create and gave to the solver.
Cex_C20 ==
    (/\ hasConstraint(Self, lowGoal) /\ hasConstraint(Self, highGoal)
     /\ LexLess(client.low, client.high)) => created(client.low) < created(client.high)

(***************************************************************************)
(* C21..C30                                                                *)
(***************************************************************************)
\* C21 (violated by the code): itemAt(0) .. itemAt(size - 1) visits the keys of the map in
\* the order in which they were inserted.
Cex_C21 == MapKeys(client.map) = client.inserted

\* what one argument of new Expression(...) contributes: to the constant, to the coefficient
\* of the variable v, and to the value under the variable values vals
ItemConstant(item) ==
    IF item.kind = "number" THEN item.k
    ELSE IF item.kind = "expression" THEN item.e.constant
    ELSE IF item.kind = "pairExpression" THEN RMul(item.k, item.e.constant)
    ELSE Zero

TermOf(e, v) == IF MapContains(e.terms, v) THEN MapValue(e.terms, v) ELSE Zero

ItemCoefficient(item, v) ==
    IF item.kind = "variable" THEN (IF item.v = v THEN One ELSE Zero)
    ELSE IF item.kind = "pairVariable" THEN (IF item.v = v THEN item.k ELSE Zero)
    ELSE IF item.kind = "expression" THEN TermOf(item.e, v)
    ELSE IF item.kind = "pairExpression" THEN RMul(item.k, TermOf(item.e, v))
    ELSE Zero

ItemMentions(item, v) ==
    IF item.kind \in {"variable", "pairVariable"} THEN item.v = v
    ELSE IF item.kind \in {"expression", "pairExpression"} THEN MapContains(item.e.terms, v)
    ELSE FALSE

ItemValue(item, vals) ==
    IF item.kind = "number" THEN item.k
    ELSE IF item.kind = "variable" THEN vals[item.v]
    ELSE IF item.kind = "pairVariable" THEN RMul(item.k, vals[item.v])
    ELSE IF item.kind = "expression" THEN ExpressionValue(item.e, vals)
    ELSE RMul(item.k, ExpressionValue(item.e, vals))

RECURSIVE ArgsConstant(_, _)
ArgsConstant(args, i) ==
    IF i > Len(args) THEN Zero ELSE RAdd(ItemConstant(args[i]), ArgsConstant(args, i + 1))

RECURSIVE ArgsCoefficient(_, _, _)
ArgsCoefficient(args, i, v) ==
    IF i > Len(args) THEN Zero
    ELSE RAdd(ItemCoefficient(args[i], v), ArgsCoefficient(args, i + 1, v))

RECURSIVE ArgsValue(_, _, _)
ArgsValue(args, i, vals) ==
    IF i > Len(args) THEN Zero ELSE RAdd(ItemValue(args[i], vals), ArgsValue(args, i + 1, vals))

TestValues == {R(-1), Zero, R(2)}

ValuesOf(a, b) == [v \in Variables |-> IF v = x THEN a ELSE IF v = y THEN b ELSE Zero]

\* e is what the claim says of new Expression(...args)
Normalized(e, args) ==
    /\ e.constant = ArgsConstant(args, 1)
    /\ \A i, j \in 1..Len(e.terms) : e.terms[i][1] = e.terms[j][1] => i = j
    /\ \A v \in Variables :
          /\ MapContains(e.terms, v) <=> \E i \in 1..Len(args) : ItemMentions(args[i], v)
          /\ TermOf(e, v) = ArgsCoefficient(args, 1, v)
    /\ \A a \in TestValues, b \in TestValues :
          ExpressionValue(e, ValuesOf(a, b)) = ArgsValue(args, 1, ValuesOf(a, b))

\* C22: the Expression constructed of numbers, Variables, Expressions and [k, _] pairs has
\* for constant the sum of the numbers and of the (k-scaled) constants of the nested
\* Expressions, holds each mentioned Variable once with the sum of its (k-scaled) occurrences
\* for coefficient, and its value() is the sum of the values of the arguments.
Thm_C22 == client.built # <<>> => Normalized(client.built[1], client.args)

\* new Expression(x, [-2, inner], [3, x]) with inner = x + 1 + 2y is 2x - 4y - 2
Wit_C22 ==
    /\ client.built # <<>>
    /\ client.args = <<VariableItem(x), PairExpressionItem(R(-2), inner), PairVariableItem(R(3), x)>>
    /\ client.built[1] = Expression(<<Term(R(2), x), Term(R(-4), y)>>, R(-2))

\* the strength the claim has the Constraint store
ClippedStrength(strength) ==
    IF strength = <<>> THEN required
    ELSE IF strength[1] < 0 THEN 0
    ELSE IF strength[1] > required THEN required
    ELSE strength[1]

\* the stored expression is lhs - rhs: it has that value whatever the variables' values
IsDifference(e, lhs, rhs) ==
    \A a \in TestValues, b \in TestValues :
        ExpressionValue(e, ValuesOf(a, b))
            = RSub(ItemValue(lhs, ValuesOf(a, b)), ItemValue(rhs, ValuesOf(a, b)))

StoresAsClaimed(made, lhs, operator, rhs, strength) ==
    /\ made.err = "ok"
    /\ IF rhs.kind = "undefined" /\ lhs.kind = "expression"
       THEN made.c.expression = lhs.e
       ELSE IsDifference(made.c.expression, lhs, IF rhs.kind = "undefined" THEN NumberItem(Zero) ELSE rhs)
    /\ made.c.op = operator
    /\ made.c.strength = ClippedStrength(strength)

\* C23 (violated by the code): new Constraint(lhs, op, rhs, strength) succeeds and stores lhs
\* itself when rhs is absent and lhs is an Expression, otherwise lhs - rhs; the operator; and
\* the strength clipped to [0, Strength.required] (Strength.required when omitted).
Cex_C23 ==
    client.made # <<>> =>
        StoresAsClaimed(client.made[1], client.lhs, client.operator, client.rhs, client.strength)

\* the errors that tell of a failure inside the solver
InternalErrors == {"the objective is unbounded", "failed to find leaving row", "dual optimize failed"}

\* C24 (violated by the code): no public call throws 'the objective is unbounded', 'failed to find leaving row' or
\* 'dual optimize failed', also after an addConstraint that threw 'unsatisfiable constraint'.
Cex_C24 == lastCall.err \notin InternalErrors

\* the constraints of the solver that own the symbol
Owns(tag, symbol) == tag.marker = symbol \/ tag.other = symbol

\* C25 as stated (violated): after every successful public call, every Error symbol that is
\* a cell of a tableau row is a cell of the objective row too, with the strength of the
\* constraint that owns it for coefficient.
Orig_C25 ==
    (client.stops /\ lastCall.err = "ok") =>
        \A i \in 1..Len(rowMap) : \A j \in 1..Len(rowMap[i][2].cells) :
            rowMap[i][2].cells[j][1].type = "Error" =>
                \E k \in 1..Len(cnMap) :
                    /\ Owns(cnMap[k][2], rowMap[i][2].cells[j][1])
                    /\ coefficientFor(objective, rowMap[i][2].cells[j][1]) = R(cnMap[k][1].strength)

\* the coefficient of symbol in the error variable e written in the non-basic symbols: in
\* the row of e when e is basic, else 1 for e itself
Expanded(e, symbol) ==
    IF e.type # "Error" THEN Zero
    ELSE IF MapContains(rowMap, e) THEN coefficientFor(MapValue(rowMap, e), symbol)
    ELSE IF e = symbol THEN One
    ELSE Zero

\* the sum over the constraints from the k-th on of strength * (error variables), at symbol
RECURSIVE WeightedErrors(_, _)
WeightedErrors(symbol, k) ==
    IF k > Len(cnMap) THEN Zero
    ELSE RAdd(RMul(R(cnMap[k][1].strength),
                   RAdd(Expanded(cnMap[k][2].marker, symbol), Expanded(cnMap[k][2].other, symbol))),
              WeightedErrors(symbol, k + 1))

CellSymbols ==
    {objective.cells[j][1] : j \in 1..Len(objective.cells)}
        \cup UNION {{rowMap[i][2].cells[j][1] : j \in 1..Len(rowMap[i][2].cells)} : i \in 1..Len(rowMap)}

\* C25 (amended): after every successful public call the objective row is the sum, over the
\* constraints in the solver, of strength * (its error variables), each basic error variable
\* replaced by its row: every symbol has that sum for coefficient in the objective.
Thm_C25 ==
    (client.stops /\ lastCall.err = "ok") =>
        \A symbol \in CellSymbols : coefficientFor(objective, symbol) = WeightedErrors(symbol, 1)

\* several goals on x are in the solver, an error variable is basic, and an error variable
\* that is a cell of a row has a coefficient in the objective that is no strength at all
Wit_C25 ==
    /\ client.stops /\ lastCall.err = "ok"
    /\ Len(cnMap) >= 3
    /\ \E i \in 1..Len(rowMap) : rowMap[i][1].type = "Error"
    /\ \E i \in 1..Len(rowMap) : \E j \in 1..Len(rowMap[i][2].cells) :
          /\ rowMap[i][2].cells[j][1].type = "Error"
          /\ \A k \in 1..Len(cnMap) :
                coefficientFor(objective, rowMap[i][2].cells[j][1]) # R(cnMap[k][1].strength)

\* C26 as stated: in no pivot of a public call, the marker pivot of removeConstraint
\* included, is the symbol that leaves the basis of type External
Orig_C26 == \A i \in 1..Len(pivots) : pivots[i].leaving.type # "External"

\* the rows of the tableau that marker can leave through without an External symbol leaving
RestrictedRowsWith(rows, marker) ==
    {i \in 1..Len(rows) :
         rows[i][1].type # "External" /\ coefficientFor(rows[i][2], marker) # Zero}

\* C26, amended: the symbol that leaves the basis in a pivot of _optimize or _dualOptimize
\* is never of type External, and in the marker pivot of removeConstraint it is of type
\* External only when no row of a symbol of another type has a cell for the marker
Thm_C26 ==
    [][\A i \in 1..Len(pivots') :
           pivots'[i].leaving.type = "External" =>
               /\ pivots'[i].in = "marker"
               /\ RestrictedRowsWith(rowMap, pivots'[i].entering) = {}]_vars

\* a removeConstraint whose marker pivot made an External symbol leave the basis while
\* the tableau it leaves still has the row of another External symbol
Wit_C26 ==
    /\ lastCall.op = "removeConstraint"
    /\ \E i \in 1..Len(pivots) :
           pivots[i].in = "marker" /\ pivots[i].leaving.type = "External"
    /\ \E j \in 1..Len(rowMap) : rowMap[j][1].type = "External"

\* the symbols that are cells of row
RowSymbols(row) == {row.cells[j][1] : j \in 1..Len(row.cells)}

\* C27: after every public call, returning or throwing, no key of rowMap is a cell of a
\* row of the tableau or of the objective, and no row has the Invalid symbol as key or cell
Thm_C27 ==
    /\ \A i \in 1..Len(rowMap) :
           /\ rowMap[i][1].type # "Invalid"
           /\ \A symbol \in RowSymbols(rowMap[i][2]) :
                  symbol.type # "Invalid" /\ ~MapContains(rowMap, symbol)
    /\ \A symbol \in RowSymbols(objective) :
           symbol.type # "Invalid" /\ ~MapContains(rowMap, symbol)

\* a call that threw after it had pivoted, and left rows with cells and an objective with cells
Wit_C27 ==
    /\ lastCall.err \notin {"", "ok"}
    /\ pivots # <<>>
    /\ \E i \in 1..Len(rowMap) : rowMap[i][2].cells # <<>>
    /\ objective.cells # <<>>

\* no cell stored in row has a coefficient within eps of zero
NoNearZeroCell(row) == \A j \in 1..Len(row.cells) : ~nearZero(row.cells[j][2])

\* C28: every operation of Row leaves the row without a cell whose coefficient is within
\* eps = 1.0e-8 of zero, the cells that solveFor multiplies by -1 / k included
Cex_C28 == NoNearZeroCell(client.row)

\* the artificial symbol that addConstraint(constraint) makes in S, the invalid symbol
\* when it makes none: the row has no subject and is not a row of dummies only
artificialSymbolOf(data) ==
    IF chooseSubject(data.row, data.tag).type = "Invalid" /\ ~allDummies(data.row)
    THEN makeSymbol(data.s, "Slack")
    ELSE INVALID_SYMBOL

artificialSymbol(S, constraint) ==
    IF MapContains(S.cnMap, constraint) THEN INVALID_SYMBOL
    ELSE artificialSymbolOf(createRow(S, constraint))

\* in the next state the artificial row is null and symbol is no key of rowMap and no
\* cell of a row or of the objective
ArtificialGone(symbol) ==
    /\ artificial' = <<>>
    /\ ~MapContains(rowMap', symbol)
    /\ symbol \notin CellSymbols'

\* C29: after any addConstraint call, returned or thrown, the artificial row is null and
\* the artificial symbol of the call is neither a key of rowMap nor a cell of a row or
\* of the objective
Cex_C29 ==
    [][\A constraint \in PoolCeiling :
           AddConstraint(constraint) => ArtificialGone(artificialSymbol(Self, constraint))]_vars

\* the rows of rows, by position, with a non-External basic symbol and a negative (sign = -1)
\* or positive (sign = 1) coefficient for marker
RestrictedRowsSigned(rows, marker, sign) ==
    {i \in RestrictedRowsWith(rows, marker) :
         IF sign < 0 THEN RLt(coefficientFor(rows[i][2], marker), Zero)
                     ELSE RLt(Zero, coefficientFor(rows[i][2], marker))}

ExternalRowsWith(rows, marker) ==
    {i \in 1..Len(rows) :
         rows[i][1].type = "External" /\ coefficientFor(rows[i][2], marker) # Zero}

\* constant / c of row i, negated for sign = -1
MarkerRatio(rows, marker, sign, i) ==
    RDiv(RMul(R(sign), rows[i][2].constant), coefficientFor(rows[i][2], marker))

\* row i is one of candidates with the smallest ratio
SmallestRatio(rows, marker, sign, candidates, i) ==
    /\ i \in candidates
    /\ \A j \in candidates :
           RLe(MarkerRatio(rows, marker, sign, i), MarkerRatio(rows, marker, sign, j))

\* row i is the row the priority of C30 names for marker
PriorityRow(rows, marker, i) ==
    IF RestrictedRowsSigned(rows, marker, -1) # {}
    THEN SmallestRatio(rows, marker, -1, RestrictedRowsSigned(rows, marker, -1), i)
    ELSE IF RestrictedRowsSigned(rows, marker, 1) # {}
    THEN SmallestRatio(rows, marker, 1, RestrictedRowsSigned(rows, marker, 1), i)
    ELSE /\ i \in ExternalRowsWith(rows, marker)
         /\ \A j \in ExternalRowsWith(rows, marker) : j <= i

\* the tableau right after the marker pivot of removeConstraint: the row of leaving erased,
\* solved for marker and substituted
afterMarkerPivot(S, marker, leaving) ==
    substituteTableau([S EXCEPT !.rowMap = MapErase(@, leaving)], marker,
                      solveForEx(MapValue(S.rowMap, leaving), leaving, marker))

\* no row with a non-External basic symbol has a negative constant
NoNegativeRestricted(rows) ==
    \A i \in 1..Len(rows) : rows[i][1].type # "External" => ~RLt(rows[i][2].constant, Zero)

\* C30: the marker pivot of removeConstraint takes the leaving row by the priority (1) the
\* smallest -constant/c among the non-External rows with c < 0, (2) the smallest constant/c
\* among the non-External rows with c > 0, (3) the last External row with c # 0; and after
\* the pivot no row with a non-External basic symbol has a negative constant
Cex_C30 ==
    [][\A k \in 1..Len(pivots') :
           pivots'[k].in = "marker" =>
               /\ MapContains(rowMap, pivots'[k].leaving)
               /\ PriorityRow(rowMap, pivots'[k].entering, MapIndex(rowMap, pivots'[k].leaving))
               /\ NoNegativeRestricted(
                      afterMarkerPivot(Self, pivots'[k].entering, pivots'[k].leaving).rowMap)
               /\ NoNegativeRestricted(rowMap')]_vars

\* constraint holds of every assignment of the grid that satisfies the required constraints
\* in the solver, and of none of them
Implied(constraint) ==
    \A a \in (-GridLow)..GridMax, b \in (-GridLow)..GridMax :
        RequiredHold(Candidate(a, b)) => Holds(constraint, Candidate(a, b))

Excluded(constraint) ==
    \A a \in (-GridLow)..GridMax, b \in (-GridLow)..GridMax :
        RequiredHold(Candidate(a, b)) => ~Holds(constraint, Candidate(a, b))

\* the next state has constraint in the solver with a basic Dummy marker
AcceptedRedundant(constraint) ==
    /\ lastCall'.err = "ok"
    /\ MapContains(cnMap', constraint)
    /\ MapValue(cnMap', constraint).marker.type = "Dummy"
    /\ MapContains(rowMap', MapValue(cnMap', constraint).marker)

\* C31: a required equality that the required equalities in the solver imply is accepted
\* with its Dummy marker basic, one that they exclude throws 'unsatisfiable constraint',
\* and after every call that returns, removals of redundant constraints included, the
\* required constraints still in the solver hold of the values updateVariables reports
Thm_C31 ==
    /\ [][\A c \in PoolRedundant :
            (AddConstraint(c) /\ ~hasConstraint(Self, c)) =>
                /\ Implied(c) => AcceptedRedundant(c)
                /\ Excluded(c) => lastCall'.err = "unsatisfiable constraint"]_vars
    /\ [](lastCall.err = "ok" => RequiredHold(Report))

\* x = 5 was in the solver with its repetition, one of the two was removed by the last
\* call, and updateVariables reports 5 for x
Wit_C31 ==
    /\ lastCall.op = "removeConstraint" /\ lastCall.err = "ok"
    /\ lastCall.cn \in {xIs5.id, xIs5Again.id}
    /\ \E i \in 1..Len(cnMap) : cnMap[i][1].id \in {xIs5.id, xIs5Again.id}
    /\ \E i \in 1..Len(rowMap) : rowMap[i][1].type = "Dummy"
    /\ Report[x] = R(5)

\* some constraint in the solver, edit constraints included, has a term for variable
Constrained(variable) ==
    \E i \in 1..Len(cnMap) : MapContains(cnMap[i][1].expression.terms, variable)

\* the value updateVariables gives a variable: the constant of the basic row of its External
\* symbol, 0 when the symbol is not basic, the value it had when it has no symbol
RowValue(variable, before) ==
    IF ~MapContains(varMap, variable) THEN before
    ELSE IF \E i \in 1..Len(rowMap) : rowMap[i][1] = MapValue(varMap, variable)
    THEN rowMap[CHOOSE i \in 1..Len(rowMap) : rowMap[i][1] = MapValue(varMap, variable)][2].constant
    ELSE Zero

\* C32: updateVariables sets every variable that has an External symbol to the constant of
\* the symbol's basic row, to 0 when the symbol is not basic; a variable that has a symbol and
\* no constraint left in the solver has value 0 after updateVariables; and a second
\* updateVariables right after would change no value
Cex_C32 ==
    /\ [][UpdateVariables => \A v \in Variables : value'[v] = RowValue(v, value[v])]_vars
    /\ [](lastCall.op = "updateVariables" =>
              /\ \A v \in Variables :
                     (MapContains(varMap, v) /\ ~Constrained(v)) => value[v] = Zero
              /\ Report = value)

\* v clamped to [lo, hi]
Clamp(v, lo, hi) == IF RLt(v, lo) THEN lo ELSE IF RLt(hi, v) THEN hi ELSE v

\* C33: with the required bounds 3 <= x and x <= 6 in the solver and x an edit variable of
\* a strength below required, the value of x after suggestValue calls and updateVariables
\* is the last suggested value clamped to [3, 6]
Thm_C33 ==
    (/\ lastCall.op = "updateVariables"
     /\ hasConstraint(Self, xGe3) /\ hasConstraint(Self, xLe6)
     /\ hasEditVariable(Self, x))
        => value[x] = Clamp(suggested[x], RNeg(xGe3.expression.constant),
                             RNeg(xLe6.expression.constant))

\* both bounds and the edit variable are in the solver, 9 was suggested last, and
\* updateVariables gave x the upper bound
Wit_C33 ==
    /\ lastCall.op = "updateVariables"
    /\ hasConstraint(Self, xGe3) /\ hasConstraint(Self, xLe6)
    /\ hasEditVariable(Self, x)
    /\ suggested[x] = R(9)
    /\ value[x] = R(6)

\* the values tried as suggestions from every state
HistoryValues == {R(-1), R(4), R(9)}

\* the basic symbols of S with the constants of their rows
rowConstants(S) == {<<S.rowMap[i][1], S.rowMap[i][2].constant>> : i \in 1..Len(S.rowMap)}

\* direct: suggestValue(v, b); detour: suggestValue(v, a) then suggestValue(v, b);
\* again: suggestValue(v, b) twice.  When none of them throws, updateVariables reports the
\* same after direct and detour and the second call of again changed no row constant
HistoryFree(direct, detour, again) ==
    (direct.err = "ok" /\ detour.err = "ok" /\ again.err = "ok") =>
        /\ updateVariables(direct.s, value) = updateVariables(detour.s, value)
        /\ rowConstants(again.s) = rowConstants(direct.s)

\* C34 as stated: from every state reached by successful calls, for every edit variable v,
\* suggestValue(v, a) then suggestValue(v, b) makes updateVariables report what
\* suggestValue(v, b) alone does, and repeating suggestValue(v, b) changes no row constant
Orig_C34 ==
    lastCall.err = "ok" =>
        \A i \in 1..Len(editMap), a \in HistoryValues, b \in HistoryValues :
            HistoryFree(suggestValue(Self, editMap[i][1], b),
                        suggestValue(suggestValue(Self, editMap[i][1], a).s, editMap[i][1], b),
                        suggestValue(suggestValue(Self, editMap[i][1], b).s, editMap[i][1], b))

\* the goal of constraint cn: targets[v] when cn is the edit constraint of v, else 0
TargetOf(cn, targets) ==
    IF \E i \in 1..Len(editMap) : editMap[i][2].constraint.id = cn.id
    THEN targets[editMap[CHOOSE i \in 1..Len(editMap) : editMap[i][2].constraint.id = cn.id][1]]
    ELSE Zero

\* the sum over the non-required constraints of strength times violation, the edit
\* constraints having the goals targets
RECURSIVE CostAt(_, _, _)
CostAt(values, targets, i) ==
    IF i > Len(cnMap) THEN Zero
    ELSE IF cnMap[i][1].strength = required THEN CostAt(values, targets, i + 1)
    ELSE RAdd(RMul(R(cnMap[i][1].strength),
                   ViolationOf(cnMap[i][1].op,
                               RSub(ExpressionValue(cnMap[i][1].expression, values),
                                    TargetOf(cnMap[i][1], targets)))),
              CostAt(values, targets, i + 1))

\* direct, detour and again as in HistoryFree: when none of them throws, the solver keeps
\* the same edit constants after direct and detour, what updateVariables reports after
\* either satisfies the required constraints at the same cost, and the second call of
\* again changed no row constant
HistoryFreeCost(direct, detour, again, targets) ==
    (direct.err = "ok" /\ detour.err = "ok" /\ again.err = "ok") =>
        /\ direct.s.editMap = detour.s.editMap
        /\ RequiredHold(updateVariables(direct.s, value))
        /\ RequiredHold(updateVariables(detour.s, value))
        /\ CostAt(updateVariables(direct.s, value), targets, 1)
               = CostAt(updateVariables(detour.s, value), targets, 1)
        /\ rowConstants(again.s) = rowConstants(direct.s)

\* C34, amended: from every state reached by successful calls, for every edit variable v,
\* suggestValue(v, a) then suggestValue(v, b) leaves the solver with the edit constants of
\* suggestValue(v, b) alone and makes updateVariables report an assignment that satisfies
\* the required constraints at the same cost as the one reported after suggestValue(v, b)
\* alone (the edit variable counting as the goal v = b); and repeating suggestValue(v, b)
\* changes no row constant
Thm_C34 ==
    lastCall.err = "ok" =>
        \A i \in 1..Len(editMap), a \in HistoryValues, b \in HistoryValues :
            HistoryFreeCost(suggestValue(Self, editMap[i][1], b),
                            suggestValue(suggestValue(Self, editMap[i][1], a).s, editMap[i][1], b),
                            suggestValue(suggestValue(Self, editMap[i][1], b).s, editMap[i][1], b),
                            [suggested EXCEPT ![editMap[i][1]] = b])

\* x is an edit variable beside the strong x = 7, and suggesting 9 and then 4 makes
\* updateVariables report another value for x than suggesting 4 at once
Wit_C34 ==
    /\ lastCall.err = "ok"
    /\ hasEditVariable(Self, x) /\ hasConstraint(Self, xIs7)
    /\ suggestValue(suggestValue(Self, x, R(9)).s, x, R(4)).err = "ok"
    /\ updateVariables(suggestValue(suggestValue(Self, x, R(9)).s, x, R(4)).s, value)[x]
           # updateVariables(suggestValue(Self, x, R(4)).s, value)[x]

\* the elements of a sequence
Range(seq) == {seq[i] : i \in 1..Len(seq)}

\* C35: after an addConstraint(c) that threw for another reason than 'duplicate constraint'
\* (unsatisfiable, unbounded, iteration ceiling), hasConstraint(c) is false, getConstraints()
\* does not contain c, and addConstraint(c) would not throw 'duplicate constraint'
Cex_C35 ==
    (lastCall.op = "addConstraint" /\ lastCall.err \notin {"ok", "duplicate constraint"}) =>
        \A c \in PoolCeiling :
            c.id = lastCall.cn =>
                /\ ~hasConstraint(Self, c)
                /\ c \notin Range(getConstraints(Self))
                /\ addConstraint(Self, c).err # "duplicate constraint"

\* in the next state symbol is no key of rowMap and no cell of a row or of the objective
GoneNext(symbol) == ~MapContains(rowMap', symbol) /\ symbol \notin CellSymbols'

\* C36: after removeConstraint(c) returns, neither the marker nor the other symbol of the
\* tag of c is a key of rowMap, a cell of a row or a cell of the objective
Thm_C36 ==
    [][\A i \in 1..Len(cnMap) :
           (/\ lastCall'.op = "removeConstraint"
            /\ lastCall'.cn = cnMap[i][1].id
            /\ lastCall'.err = "ok")
               => GoneNext(cnMap[i][2].marker) /\ GoneNext(cnMap[i][2].other)]_vars

\* the weak x >= 10 was removed by a marker pivot that made an Error symbol leave the
\* basis, and rows of other constraints are left
Wit_C36 ==
    /\ lastCall.op = "removeConstraint" /\ lastCall.cn = softGe10.id /\ lastCall.err = "ok"
    /\ \E k \in 1..Len(pivots) : pivots[k].in = "marker" /\ pivots[k].leaving.type = "Error"
    /\ rowMap # <<>>

\* C37: in a sequence of public calls none of which throws, after every call the tableau
\* has as many rows as the solver has constraints, edit constraints included
Thm_C37 == (client.stops /\ lastCall.err = "ok") => Len(rowMap) = Len(cnMap)

\* an addConstraint that went through the artificial variable and pivoted it out of the
\* basis returned, beside an edit variable: three constraints or more, as many rows
Wit_C37 ==
    /\ client.stops /\ lastCall.err = "ok"
    /\ lastCall.op = "addConstraint"
    /\ \E k \in 1..Len(pivots) : pivots[k].in = "artificial"
    /\ editMap # <<>>
    /\ Len(cnMap) >= 3
    /\ Len(rowMap) = Len(cnMap)

\* C38: in a sequence of public calls none of which throws, after every call every row whose
\* basic symbol is Slack, Error or Dummy has a constant that is >= 0 or within epsilon of 0
Thm_C38 ==
    (client.stops /\ lastCall.err = "ok") =>
        \A i \in 1..Len(rowMap) :
            rowMap[i][1].type # "External" =>
                ~RLt(rowMap[i][2].constant, Zero) \/ nearZero(rowMap[i][2].constant)

\* a suggestValue returned after its dual optimisation pivoted, and the tableau has rows of
\* Slack or Error symbols with positive constants beside a row of an External symbol
Wit_C38 ==
    /\ client.stops /\ lastCall.op = "suggestValue" /\ lastCall.err = "ok"
    /\ pivots # <<>>
    /\ \E i \in 1..Len(rowMap) :
           rowMap[i][1].type \in {"Slack", "Error"} /\ RLt(Zero, rowMap[i][2].constant)
    /\ \E i \in 1..Len(rowMap) : rowMap[i][1].type = "External"

\* the constraints of PoolSoft below required: a Ge, two Le and an Eq
BelowRequired == {c \in PoolSoft : c.strength < required}

\* the subject _chooseSubject finds for constraint on the solver as it is
subjectOf(data) == chooseSubject(data.row, data.tag)

OwnSubject(data) ==
    \/ subjectOf(data).type = "External"
    \/ /\ subjectOf(data).type \in {"Slack", "Error"}
       /\ subjectOf(data) \in {data.tag.marker, data.tag.other}

\* C39: after successful calls, addConstraint of a Le, Ge or Eq constraint below required
\* finds a subject among the External symbols of the row or the constraint's own Slack and
\* Error symbols, makes no artificial variable and does not throw 'unsatisfiable constraint';
\* nor does addEditVariable with a strength below required
Thm_C39 ==
    (client.stops /\ lastCall.err = "ok") =>
        /\ \A c \in BelowRequired :
               /\ OwnSubject(createRow(Self, c))
               /\ artificialSymbol(Self, c).type = "Invalid"
               /\ addConstraint(Self, c).err # "unsatisfiable constraint"
        /\ \A v \in Variables, s \in SoftStrengths :
               addEditVariable(Self, v, s, CnId).err # "unsatisfiable constraint"

\* the strong x <= 5 was added to a solver that holds the required x >= 10: its row had no
\* External symbol left, and the constraint is in the solver with an Error symbol of its own
Wit_C39 ==
    /\ client.stops /\ lastCall.op = "addConstraint" /\ lastCall.err = "ok"
    /\ lastCall.cn = softLe5.id
    /\ MapContains(cnMap, xGe10) /\ MapContains(cnMap, softLe5)
    /\ MapValue(cnMap, softLe5).other.type = "Error"

\* C40: every edit variable has the constraint recorded in its edit info in the constraint
\* map, under the tag recorded with it
Cex_C40 ==
    \A i \in 1..Len(editMap) :
        /\ MapContains(cnMap, editMap[i][2].constraint)
        /\ MapValue(cnMap, editMap[i][2].constraint) = editMap[i][2].tag

====
